---- MODULE Spec2Model ----
(***************************************************************************)
(* Verification model of the earthquake-monitor notification pipeline:     *)
(* the WebSocket filter (rate/throttle engine), the connection registry    *)
(* and broadcaster, the event handlers and the ingestion use case.         *)
(*                                                                         *)
(* Magnitudes are in tenths (5.0 is 50); times are whole seconds of        *)
(* time.time(); a minute bucket is now \div 60.                            *)
(***************************************************************************)
EXTENDS Integers, Sequences, FiniteSets, TLC

\* ------------------------------------------------------------------------
\* Bounds of the model
\* ------------------------------------------------------------------------
MaxElapsed == 10
MaxFineTicks == 1
MaxAlerts == 2
MaxWindowElapsed == 55
MaxWindowAlerts == 1
MaxPruneElapsed == 185
MaxShortTicks == 1
MaxPruneAlerts == 10
MaxRecords == 2
MaxMutations == 1
MaxBroadcasts == 2
MaxRepeats == 2
MaxSetups == 3
MaxFires == 3
MaxMessages == 3
MaxSubscriptions == 3
MaxPublishes == 2
MaxSwitches == 4
MaxMisfireElapsed == 3900
MaxCatchUps == 3

\* ------------------------------------------------------------------------
\* Program constants
\* ------------------------------------------------------------------------
min_magnitude_threshold == 20
max_earthquakes_per_minute == 10
throttle_interval_seconds == 5
max_age_minutes == 60
AlertThreshold == 40
BucketSeconds == 60
PruneBuckets == 2
StartTime == 600
SignificantMagnitude == 50
DefaultRadius == 500
MaxMessageBytes == 102400
TwoInstances == 1 + 1
max_instances == 1
NoCoalesce == FALSE
coalesce == TRUE
misfire_grace_time == 300
\* the clock of the misfire specification moves by one grace window
MisfireStep == misfire_grace_time
\* USGS_INGESTION_INTERVAL_MINUTES, in seconds: the default and one minute
Intervals == {60, 1800}

Clients == {"c1", "c2"}
OneClient == {"c1"}
RegClients == {"c1", "c2"}
StdMags == {19, 20}
AlertMags == {39, 40}
FilterAges == {3600, 3601}
ExtIds == {"x1"}
NoExt == "none"
PipelineMags == {45, 65}
\* location.depth, whole kilometres
Depths == {10, 95}
ManagerMags == {15, 45}
MessageTypes == {"earthquake_detected", "recent_earthquakes_update", "subscription_confirmed"}
MessageSizes == {64, 102399, 102400, 102401, 153600}

VARIABLES
    now,                      \* time.time(), whole seconds
    client_last_broadcast,    \* dict client_id -> time of last admission
    client_earthquake_count,  \* dict client_id -> dict minute_key -> count
    lastOp,                   \* the latest admission decision
    lastAdmit,                \* per client: time and kind of the latest admission and
                              \* its distance from the one before
    winStart,                 \* start of the observed 60-second window, or -1
    winCount,                 \* per client: admissions inside the observed window
    stdBucket,                \* per client: standard admissions in the bucket of the latest one
    smallTicks,               \* short clock steps taken
    nAlerts,                  \* alert admissions made
    db,                       \* earthquakes table: id -> row
    usedIds,                  \* the uuids given to entities so far
    task,                     \* the use case in progress and its position
    run,                      \* the counters of the ingestion run in progress
    nRecords,                 \* entities handed to the use cases so far
    nMutations,               \* changes made to stored rows from outside
    lastHandled,              \* what the latest event handler call did
    connections,              \* WebSocketManager._connections (its keys)
    earthquake_subscribers,   \* WebSocketManager._earthquake_subscribers
    alert_subscribers,        \* WebSocketManager._alert_subscribers
    filter_service,           \* WebSocketManager._filter_service is set
    lastBroadcastMsg,         \* the latest broadcast: message, receivers, admissions
    closed,                   \* client ids whose connection has ended
    bcast,                    \* the _broadcast_to_* call in progress, send by send
    endpoint,                 \* per client id: where its websocket_endpoint coroutine is
    lastSend,                 \* the latest _send_to_client call and what it wrote
    lastDisconnect,           \* the latest direct disconnect call and how it ended
    lastMessage,              \* the latest handle_message or broadcast call and what it sent
    classified,               \* the latest Magnitude built and what its methods returned
    handlers,                 \* InMemoryEventPublisher._handlers: event type -> list of handlers
    lastPublish,              \* the latest publish call: handlers invoked, in order
    requests,                 \* the requests to POST /scheduler/start: where each one is
    app_state,                \* app.state.scheduler_service: the request that made it, or "none"
    schedulers,               \* the services whose scheduler runs with the ingestion job
    jobs_added,               \* ScheduledJobService._jobs_added
    scheduler,                \* the job scheduler: running, jobs registered, executions in progress
    lastRun,                  \* how the latest execution of the ingestion job ended
    calls,                    \* calls made on the scheduled job service so far
    ingest                    \* per trigger: the ingestion of the shared record in progress

filterVars == <<now, client_last_broadcast, client_earthquake_count>>
observerVars == <<lastOp, lastAdmit, winStart, winCount, stdBucket, smallTicks, nAlerts>>
engineVars == <<now, client_last_broadcast, client_earthquake_count, lastOp, lastAdmit,
                winStart, winCount, stdBucket, smallTicks, nAlerts>>
pipeVars == <<db, usedIds, task, run, nRecords, nMutations, lastHandled>>
regVars == <<connections, earthquake_subscribers, alert_subscribers, filter_service,
             lastBroadcastMsg, closed, bcast, endpoint>>
appVars == <<requests, app_state, schedulers>>
domainVars == <<classified, handlers, lastPublish, appVars>>
sendVars == <<lastSend, lastDisconnect, lastMessage, domainVars>>
schedVars == <<jobs_added, scheduler, lastRun, calls>>
backgroundVars == <<jobs_added, scheduler, lastRun, calls, ingest>>
vars == <<engineVars, pipeVars, regVars, sendVars, backgroundVars>>

\* ------------------------------------------------------------------------
\* Python dict helpers
\* ------------------------------------------------------------------------
DictGet(d, k, default) == IF k \in DOMAIN d THEN d[k] ELSE default

DictPut(d, k, v) == [x \in (DOMAIN d) \cup {k} |-> IF x = k THEN v ELSE d[x]]

EmptyDict == [x \in {} |-> 0]

\* ------------------------------------------------------------------------
\* WebSocketFilterService
\* ------------------------------------------------------------------------
MinuteKey(t) == t \div BucketSeconds

PassesMagnitudeFilter(mag) == mag >= min_magnitude_threshold

AgeFilterStrict(age) == age < max_age_minutes * 60

\* _passes_age_filter; age is datetime.now(UTC) minus occurred_at read as
\* UTC, in seconds (an Earthquake only holds naive datetimes: its
\* __post_init__ compares occurred_at with utcnow())
PassesAgeFilter(age) == age <= max_age_minutes * 60

ThrottleDisabled(lb, c, t) == TRUE

PassesThrottleFilter(lb, c, t) ==
    (t - DictGet(lb, c, 0)) >= throttle_interval_seconds

\* the counts of client c after the lazy initialisation and pruning that
\* _passes_rate_limit_filter performs before it reads the current count
RateLimitCounts(cn, c, t) ==
    LET cc == DictGet(cn, c, EmptyDict)
        kept == {k \in DOMAIN cc : ~(k < MinuteKey(t) - PruneBuckets)}
    IN  DictPut(cn, c, [k \in kept |-> cc[k]])

RateLimitOffByOne(cn, c, t) ==
    DictGet(RateLimitCounts(cn, c, t)[c], MinuteKey(t), 0) <= max_earthquakes_per_minute

PassesRateLimitFilter(cn, c, t) ==
    DictGet(RateLimitCounts(cn, c, t)[c], MinuteKey(t), 0) < max_earthquakes_per_minute

UpdateCountsTwice(cn, c, t) ==
    LET cc == DictGet(cn, c, EmptyDict)
    IN  DictPut(cn, c, DictPut(cc, MinuteKey(t), DictGet(cc, MinuteKey(t), 0) + 2))

\* _update_client_tracking: the new _client_earthquake_count
UpdateCounts(cn, c, t) ==
    LET cc == DictGet(cn, c, EmptyDict)
    IN  DictPut(cn, c, DictPut(cc, MinuteKey(t), DictGet(cc, MinuteKey(t), 0) + 1))

\* _update_client_tracking: the new _client_last_broadcast
UpdateLast(lb, c, t) == DictPut(lb, c, t)

\* should_broadcast_earthquake as a function of the engine state: the
\* decision, the check that rejected, and the engine state it leaves
ShouldBroadcastEarthquake(lb, cn, c, mag, age, t) ==
    IF ~PassesMagnitudeFilter(mag)
    THEN [ok |-> FALSE, why |-> "magnitude", lb |-> lb, cn |-> cn]
    ELSE IF ~PassesAgeFilter(age)
    THEN [ok |-> FALSE, why |-> "age", lb |-> lb, cn |-> cn]
    ELSE IF ~PassesThrottleFilter(lb, c, t)
    THEN [ok |-> FALSE, why |-> "throttle", lb |-> lb, cn |-> cn]
    ELSE IF ~PassesRateLimitFilter(cn, c, t)
    THEN [ok |-> FALSE, why |-> "rate", lb |-> lb, cn |-> RateLimitCounts(cn, c, t)]
    ELSE [ok |-> TRUE, why |-> "admitted",
          lb |-> UpdateLast(lb, c, t),
          cn |-> UpdateCounts(RateLimitCounts(cn, c, t), c, t)]

\* should_broadcast_alert without its _update_client_tracking
AlertNotTracked(lb, cn, c, mag, t) ==
    [ok |-> ~(mag < AlertThreshold),
     why |-> IF mag < AlertThreshold THEN "magnitude" ELSE "admitted",
     lb |-> lb, cn |-> cn]

AlertThrottled(lb, cn, c, mag, t) ==
    IF mag < AlertThreshold \/ ~PassesThrottleFilter(lb, c, t)
    THEN [ok |-> FALSE, why |-> "magnitude", lb |-> lb, cn |-> cn]
    ELSE [ok |-> TRUE, why |-> "admitted",
          lb |-> UpdateLast(lb, c, t), cn |-> UpdateCounts(cn, c, t)]

\* should_broadcast_alert
ShouldBroadcastAlert(lb, cn, c, mag, t) ==
    IF mag < AlertThreshold
    THEN [ok |-> FALSE, why |-> "magnitude", lb |-> lb, cn |-> cn]
    ELSE [ok |-> TRUE, why |-> "admitted",
          lb |-> UpdateLast(lb, c, t), cn |-> UpdateCounts(cn, c, t)]

\* ------------------------------------------------------------------------
\* Observers of the admissions (history, not program state)
\* ------------------------------------------------------------------------
NoAdmit == [t |-> -1, kind |-> "none", gap |-> -1]

Min(a, b) == IF a < b THEN a ELSE b

InWindow(t) == winStart >= 0 /\ winStart <= t /\ t < winStart + BucketSeconds

Observe(c, kind, r) ==
    /\ lastOp' = [client |-> c, kind |-> kind, ok |-> r.ok, why |-> r.why,
                  pruned |-> \E k \in DOMAIN DictGet(client_earthquake_count, c, EmptyDict) :
                                 k \notin DOMAIN DictGet(r.cn, c, EmptyDict)]
    /\ lastAdmit' = IF r.ok
                    THEN [lastAdmit EXCEPT ![c] =
                            [t |-> now, kind |-> kind,
                             gap |-> IF @.t < 0 THEN -1
                                     ELSE Min(now - @.t, throttle_interval_seconds)]]
                    ELSE lastAdmit
    /\ winCount' = IF r.ok /\ InWindow(now)
                   THEN [winCount EXCEPT ![c] = @ + 1]
                   ELSE winCount
    /\ stdBucket' = IF r.ok /\ kind = "std"
                    THEN [stdBucket EXCEPT ![c] =
                            IF @.minute = MinuteKey(now)
                            THEN [minute |-> @.minute, n |-> @.n + 1]
                            ELSE [minute |-> MinuteKey(now), n |-> 1]]
                    ELSE stdBucket

\* ------------------------------------------------------------------------
\* Actions of the filter
\* ------------------------------------------------------------------------
NoOp == [client |-> "c1", kind |-> "none", ok |-> FALSE, why |-> "none", pruned |-> FALSE]

FilterInit ==
    /\ now = StartTime
    /\ client_last_broadcast = EmptyDict
    /\ client_earthquake_count = EmptyDict
    /\ lastOp = NoOp
    /\ lastAdmit = [c \in Clients |-> NoAdmit]
    /\ winStart = -1
    /\ winCount = [c \in Clients |-> 0]
    /\ stdBucket = [c \in Clients |-> [minute |-> -1, n |-> 0]]
    /\ smallTicks = 0
    /\ nAlerts = 0

\* the clock advances by d seconds between two calls, up to `limit` seconds
\* after the start
Tick(d, limit) ==
    /\ now + d <= StartTime + limit
    /\ now' = now + d
    /\ UNCHANGED <<client_last_broadcast, client_earthquake_count, observerVars>>

\* a short clock step, of which at most `most` are taken
TickShort(d, limit, most) ==
    /\ smallTicks < most
    /\ now + d <= StartTime + limit
    /\ now' = now + d
    /\ smallTicks' = smallTicks + 1
    /\ UNCHANGED <<client_last_broadcast, client_earthquake_count,
                   lastOp, lastAdmit, winStart, winCount, stdBucket, nAlerts>>

\* the observer starts watching the 60 seconds that begin now
OpenWindow ==
    /\ winStart = -1
    /\ winStart' = now
    /\ UNCHANGED <<filterVars, lastOp, lastAdmit, winCount, stdBucket, smallTicks, nAlerts>>

OfferEarthquake(S) ==
    \E c \in S, mag \in StdMags, age \in FilterAges :
        LET r == ShouldBroadcastEarthquake(client_last_broadcast,
                                           client_earthquake_count, c, mag, age, now)
        IN  /\ client_last_broadcast' = r.lb
            /\ client_earthquake_count' = r.cn
            /\ Observe(c, "std", r)
            /\ UNCHANGED <<now, winStart, smallTicks, nAlerts>>

OfferAlert(S, most) ==
    \E c \in S, mag \in AlertMags :
        LET r == ShouldBroadcastAlert(client_last_broadcast,
                                      client_earthquake_count, c, mag, now)
        IN  /\ r.ok => nAlerts < most
            /\ client_last_broadcast' = r.lb
            /\ client_earthquake_count' = r.cn
            /\ Observe(c, "alert", r)
            /\ nAlerts' = IF r.ok THEN nAlerts + 1 ELSE nAlerts
            /\ UNCHANGED <<now, winStart, smallTicks>>

\* ------------------------------------------------------------------------
\* Domain: Magnitude, Earthquake
\* ------------------------------------------------------------------------
IsSignificant(mag) == mag >= SignificantMagnitude

\* Earthquake.requires_immediate_alert
RequiresImmediateAlert(e) == IsSignificant(e.mag) /\ e.near

\* ------------------------------------------------------------------------
\* PostgreSQLEarthquakeRepository
\* ------------------------------------------------------------------------
ExistingByExt(ext) == {i \in DOMAIN db : db[i].ext = ext}

Row(e) == [ext |-> e.ext, mag |-> e.mag, depth |-> e.depth]

\* save without a database error: the id it returns and the table it leaves
SaveResult(e) ==
    IF e.ext # NoExt /\ ExistingByExt(e.ext) # {}
    THEN [id |-> CHOOSE i \in ExistingByExt(e.ext) : TRUE, db |-> db, inserted |-> FALSE]
    ELSE [id |-> e.id, db |-> DictPut(db, e.id, Row(e)), inserted |-> TRUE]

\* ------------------------------------------------------------------------
\* WebSocketManager (here a broadcast runs to its end without interleaving)
\* ------------------------------------------------------------------------
NoMsg == [type |-> "none", mag |-> 0, to |-> {}, admitted |-> {}]

\* the `earthquake` argument of a broadcast when the caller leaves it out
NoEarthquake == [mag |-> 0, age |-> 0, given |-> FALSE]

\* should_broadcast_earthquake / should_broadcast_alert for one subscriber
Decision(kind, c, earthquake) ==
    IF kind = "std"
    THEN ShouldBroadcastEarthquake(client_last_broadcast, client_earthquake_count,
                                   c, earthquake.mag, earthquake.age, now)
    ELSE ShouldBroadcastAlert(client_last_broadcast, client_earthquake_count,
                              c, earthquake.mag, now)

\* `if earthquake and self._filter_service`
Filtering(earthquake) == earthquake.given /\ filter_service

\* filtered_subscribers
FilteredSubscribers(kind, subs, earthquake) ==
    {c \in subs : Decision(kind, c, earthquake).ok}

\* the clients the message is handed to _send_to_client for
BroadcastTargets(kind, subs, earthquake) ==
    IF Filtering(earthquake) THEN FilteredSubscribers(kind, subs, earthquake) ELSE subs

\* the engine state after the filter was asked about every subscriber
LastBroadcastAfter(kind, subs, earthquake) ==
    IF ~Filtering(earthquake) THEN client_last_broadcast
    ELSE [c \in (DOMAIN client_last_broadcast) \cup FilteredSubscribers(kind, subs, earthquake) |->
            IF c \in subs THEN Decision(kind, c, earthquake).lb[c] ELSE client_last_broadcast[c]]

CountsAfter(kind, subs, earthquake) ==
    IF ~Filtering(earthquake) THEN client_earthquake_count
    ELSE [c \in (DOMAIN client_earthquake_count)
                 \cup {s \in subs : s \in DOMAIN Decision(kind, s, earthquake).cn} |->
            IF c \in subs THEN Decision(kind, c, earthquake).cn[c]
            ELSE client_earthquake_count[c]]

DisconnectKeepsSubscriptions(S) ==
    [connections |-> connections \ S,
     earthquake_subscribers |-> earthquake_subscribers,
     alert_subscribers |-> alert_subscribers,
     raised |-> FALSE]

\* disconnect without its `self._alert_subscribers.discard(client_id)`
DisconnectKeepsAlertSubscription(S) ==
    [connections |-> connections \ S,
     earthquake_subscribers |-> earthquake_subscribers \ S,
     alert_subscribers |-> alert_subscribers,
     raised |-> FALSE]

\* disconnect without its `if client_id in self._connections`
DisconnectUnguarded(S) ==
    IF S \subseteq connections
    THEN [connections |-> connections \ S,
          earthquake_subscribers |-> earthquake_subscribers \ S,
          alert_subscribers |-> alert_subscribers \ S,
          raised |-> FALSE]
    ELSE [connections |-> connections,
          earthquake_subscribers |-> earthquake_subscribers,
          alert_subscribers |-> alert_subscribers,
          raised |-> TRUE]

\* the registry after disconnect(client_id) for every client_id of S, and
\* whether a call raised: the del is guarded and discard never raises
Disconnected(S) ==
    [connections |-> connections \ S,
     earthquake_subscribers |-> earthquake_subscribers \ S,
     alert_subscribers |-> alert_subscribers \ S,
     raised |-> FALSE]

\* broadcast_earthquake_update (kind "std") / broadcast_alert (kind "alert")
\* followed, when `later` is not empty, by the broadcast of the list update:
\* the sends to `failing` raise in the first, those to `later` in the second,
\* and every client whose send raised is disconnected
Broadcast(kind, type, mag, earthquake, failing, later) ==
    LET subs == IF kind = "std" THEN earthquake_subscribers ELSE alert_subscribers
        targets == BroadcastTargets(kind, subs, earthquake) \cap connections
        lost == (failing \cap targets) \cup later
    IN  /\ lastBroadcastMsg' = [type |-> type, mag |-> mag, to |-> targets \ failing,
                                admitted |-> IF Filtering(earthquake)
                                             THEN FilteredSubscribers(kind, subs, earthquake)
                                             ELSE {}]
        /\ client_last_broadcast' = LastBroadcastAfter(kind, subs, earthquake)
        /\ client_earthquake_count' = CountsAfter(kind, subs, earthquake)
        /\ connections' = Disconnected(lost).connections
        /\ earthquake_subscribers' = Disconnected(lost).earthquake_subscribers
        /\ alert_subscribers' = Disconnected(lost).alert_subscribers
        /\ closed' = closed \cup lost
        /\ UNCHANGED <<filter_service, bcast, endpoint, now, observerVars>>

\* ------------------------------------------------------------------------
\* Use cases and event handlers
\* ------------------------------------------------------------------------
NoEntity == [id |-> 0, ext |-> NoExt, mag |-> 0, near |-> FALSE, depth |-> 0]

IdleTask == [pc |-> "idle", path |-> "none", eq |-> NoEntity, saved |-> "pending",
             inserted |-> FALSE, extKnown |-> FALSE, outcome |-> "none",
             nDetected |-> 0, nAlert |-> 0, nBcast |-> 0]

\* the counters of execute before its loop; ret is how the call ended and
\* fetch what the feed fetch in front of it did
ZeroRun == [total |-> 0, new |-> 0, updated |-> 0, errors |-> 0, earthquake_ids |-> <<>>,
            ret |-> "none", fetch |-> "none"]

NoHandled == [type |-> "none", fetch |-> "not_run", fetched |-> 0, emag |-> 0,
              bcast |-> FALSE, mag |-> 0, radius |-> 0]

\* str(uuid4()): an id no entity had before
FreshId == Cardinality(usedIds) + 1

\* the entities a feed or a create request can hand to a use case: with a
\* new uuid (the default of Earthquake.earthquake_id), or for a feed record
\* with the id the same external id was stored under
Entities ==
    {e \in [id : 1..FreshId, ext : ExtIds \cup {NoExt}, mag : PipelineMags, near : BOOLEAN,
             depth : Depths] :
        \/ e.id = FreshId
        \/ e.ext # NoExt /\ e.id \in ExistingByExt(e.ext)}

StartRecord(path, e) ==
    [IdleTask EXCEPT !.pc = IF path = "ingest" THEN "check" ELSE "save",
                     !.path = path, !.eq = e,
                     !.extKnown = (e.ext # NoExt /\ ExistingByExt(e.ext) # {})]

PipeInit ==
    /\ db = EmptyDict
    /\ usedIds = {}
    /\ task = IdleTask
    /\ run = ZeroRun
    /\ nRecords = 0
    /\ nMutations = 0
    /\ lastHandled = NoHandled

\* no broadcast is running; n counts the broadcasts started
NoBroadcast == [pc |-> "idle", kind |-> "none", live |-> FALSE, targets |-> {}, size |-> 0,
                cur |-> "none", visited |-> {}, disconnected_clients |-> {},
                mutated |-> FALSE, n |-> 0]

RegInit ==
    /\ connections = {}
    /\ earthquake_subscribers = {}
    /\ alert_subscribers = {}
    /\ filter_service = FALSE
    /\ lastBroadcastMsg = NoMsg
    /\ closed = {}
    /\ bcast = NoBroadcast
    /\ endpoint = [c \in RegClients |-> "new"]

\* IngestEarthquakeDataUseCase.execute is called
StartIngest ==
    /\ task.pc = "idle"
    /\ nRecords < MaxRecords
    /\ run' = ZeroRun
    /\ task' = [IdleTask EXCEPT !.pc = "next", !.path = "ingest"]
    /\ UNCHANGED <<db, usedIds, nRecords, nMutations, lastHandled, regVars, engineVars>>

\* the loop of execute takes the next earthquake of the list
NextRecord ==
    /\ task.path = "ingest"
    /\ task.pc \in {"next", "done"}
    /\ nRecords < MaxRecords
    /\ nRecords' = nRecords + 1
    /\ \E e \in Entities :
          /\ task' = StartRecord("ingest", e)
          /\ usedIds' = usedIds \cup {e.id}
    /\ run' = [run EXCEPT !.total = @ + 1]
    /\ UNCHANGED <<db, nMutations, lastHandled, regVars, engineVars>>

\* the list is exhausted: execute returns its IngestionResult (run)
FinishIngest ==
    /\ task.path = "ingest"
    /\ task.pc \in {"next", "done"}
    /\ task' = IdleTask
    /\ run' = [run EXCEPT !.ret = "result"]
    /\ UNCHANGED <<db, usedIds, nRecords, nMutations, lastHandled, regVars, engineVars>>

\* the request.source values of a trigger
Sources == {"USGS", "usgs", "EMSC"}

\* str.upper() on the sources
Upper(source) == IF source = "usgs" THEN "USGS" ELSE source

ScheduledDoesNotCatch(source, fetch) ==
    IF Upper(source) = "USGS" /\ fetch = "ok" THEN "ingest" ELSE "raised"

\* ScheduledIngestionUseCase.execute up to the call of the ingestion: an
\* unsupported source raises ValueError and a failing fetch raises, both
\* inside the try whose except returns the error result
ScheduledOutcome(source, fetch) ==
    IF Upper(source) = "USGS" /\ fetch = "ok" THEN "ingest" ELSE "error_result"

\* the IngestionResult of the except branch
ErrorResult(fetch) ==
    [total |-> 0, new |-> 0, updated |-> 0, errors |-> 1, earthquake_ids |-> <<>>,
     ret |-> "result", fetch |-> fetch]

\* ScheduledIngestionUseCase.execute is called (by the trigger endpoint or
\* by the scheduled job): the feed fetch, then the ingestion of what it
\* returned
StartScheduledIngest ==
    /\ task.pc = "idle"
    /\ nRecords < MaxRecords
    /\ \E source \in Sources, fetch \in {"ok", "failed"} :
          LET outcome == ScheduledOutcome(source, fetch)
              did == IF Upper(source) = "USGS" THEN fetch ELSE "unsupported"
          IN  CASE outcome = "ingest" ->
                      /\ run' = [ZeroRun EXCEPT !.fetch = "ok"]
                      /\ task' = [IdleTask EXCEPT !.pc = "next", !.path = "ingest"]
                [] outcome = "error_result" ->
                      /\ run' = ErrorResult(did)
                      /\ task' = IdleTask
                [] OTHER ->
                      /\ run' = [ZeroRun EXCEPT !.ret = "raised", !.fetch = did]
                      /\ task' = IdleTask
    /\ UNCHANGED <<db, usedIds, nRecords, nMutations, lastHandled, regVars, engineVars>>

AbortOnFailedCheck == "idle"

\* where execute goes when the existence check raises: the except of the
\* loop body counts an error and the loop takes the next record
AfterFailedCheck == "done"

\* execute, lines 70-82: the existence check, made by the entity's id
CheckExisting ==
    /\ task.pc = "check"
    /\ IF task.eq.ext = NoExt
       THEN task' = [task EXCEPT !.pc = "save"] /\ run' = run
       ELSE \/ /\ task.eq.id \in DOMAIN db
               /\ task' = [task EXCEPT !.pc = "done", !.outcome = "updated"]
               /\ run' = [run EXCEPT !.updated = @ + 1]
            \/ /\ task.eq.id \notin DOMAIN db
               /\ task' = [task EXCEPT !.pc = "save"]
               /\ run' = run
            \/ \* find_by_id raises
               /\ task' = IF AfterFailedCheck = "done"
                          THEN [task EXCEPT !.pc = "done", !.outcome = "error"]
                          ELSE IdleTask
               /\ run' = [run EXCEPT !.errors = @ + 1]
    /\ UNCHANGED <<db, usedIds, nRecords, nMutations, lastHandled, regVars, engineVars>>

PublishAfterFailedSave(path) == "pub_detected"

CountsWithoutId(r, id) == [r EXCEPT !.new = @ + 1]

\* execute, lines 85-87: the id save returned is appended to earthquake_ids
\* and new_earthquakes is incremented
CountsAfterSave(r, id) == [r EXCEPT !.new = @ + 1, !.earthquake_ids = Append(@, id)]

\* where the use case goes when repository.save raises: the ingestion
\* counts an error and takes the next record, the creation raises
AfterFailedSave(path) == IF path = "ingest" THEN "done" ELSE "idle"

\* repository.save: execute line 85 (ingest), CreateEarthquakeUseCase line 50
SaveStep ==
    /\ task.pc = "save"
    /\ \/ LET r == SaveResult(task.eq)
          IN  /\ db' = r.db
              /\ task' = [task EXCEPT !.pc = "pub_detected", !.saved = "ok",
                                      !.inserted = r.inserted,
                                      !.outcome = IF task.path = "ingest" THEN "new"
                                                  ELSE "created"]
              /\ run' = IF task.path = "ingest" THEN CountsAfterSave(run, r.id) ELSE run
       \/ \* save raises
          /\ db' = db
          /\ task' = IF AfterFailedSave(task.path) = "idle"
                     THEN IdleTask
                     ELSE [task EXCEPT !.pc = AfterFailedSave(task.path),
                                       !.saved = "failed", !.outcome = "error"]
          /\ run' = IF task.path = "ingest" THEN [run EXCEPT !.errors = @ + 1] ELSE run
    /\ UNCHANGED <<usedIds, nRecords, nMutations, lastHandled, regVars, engineVars>>

\* event_publisher.publish(EarthquakeDetected(...)): its handler is awaited next
PublishDetected ==
    /\ task.pc = "pub_detected"
    /\ task' = [task EXCEPT !.pc = "h_detected", !.nDetected = @ + 1]
    /\ UNCHANGED <<db, usedIds, run, nRecords, nMutations, lastHandled, regVars, engineVars>>

PayloadFromEvent(event, row) == event.mag

\* the magnitude handle_earthquake_detected puts in the message when the
\* re-fetch returned `row`
DetectedPayload(event, row) == row.mag

\* the same for handle_high_magnitude_alert
AlertPayload(event, row) == row.mag

\* the else branch of the handlers: find_by_id returned nothing
WhenMissing == "warn"

HandlerDropsOnError == "warn"

\* the except branch of the handlers: the re-fetch raised
WhenRaised == "fallback"

\* the outcomes of repository.find_by_id(id) in the current table
FetchOutcomes(id) == (IF id \in DOMAIN db THEN {"found"} ELSE {"none"}) \cup {"raised"}

\* EarthquakeEventHandlers.handle_earthquake_detected
HandleDetected ==
    /\ task.pc = "h_detected"
    /\ \E fetch \in FetchOutcomes(task.eq.id),
          failing \in SUBSET earthquake_subscribers,
          later \in SUBSET earthquake_subscribers :
          LET event == task.eq
              does == CASE fetch = "found" -> "db"
                        [] fetch = "none" -> WhenMissing
                        [] OTHER -> WhenRaised
              mag == IF does = "db" THEN DetectedPayload(event, db[event.id]) ELSE event.mag
          IN  /\ later \cap failing = {}
              /\ does # "db" => later = {}
              /\ does = "warn" => failing = {}
              /\ lastHandled' = [type |-> "earthquake_detected", fetch |-> fetch,
                                 fetched |-> IF fetch = "found" THEN db[event.id].mag ELSE 0,
                                 emag |-> event.mag, bcast |-> does # "warn",
                                 mag |-> IF does = "warn" THEN 0 ELSE mag, radius |-> 0]
              /\ IF does = "warn"
                 THEN /\ UNCHANGED <<regVars, engineVars>>
                      /\ task' = [task EXCEPT !.pc = "alert"]
                 ELSE /\ Broadcast("std", "earthquake_detected", mag, NoEarthquake,
                                   failing, later)
                      /\ task' = [task EXCEPT !.pc = "alert", !.nBcast = @ + 1]
    /\ UNCHANGED <<db, usedIds, run, nRecords, nMutations>>

IngestAlertCondition(e) == IsSignificant(e.mag)

\* Earthquake.calculate_affected_radius_km, in tenths of a kilometre:
\* magnitude * 20 * max(0.1, 1 - depth / 100)
CalculateAffectedRadius(mag, depth) ==
    (mag * 20 * (IF 100 - depth > 10 THEN 100 - depth ELSE 10)) \div 100

\* affected_radius_km of the HighMagnitudeAlert event the use case
\* publishes: the fixed 50.0 of _publish_events, the impact assessment of
\* CreateEarthquakeUseCase
PublishedRadius(path, e) ==
    IF path = "ingest" THEN DefaultRadius ELSE CalculateAffectedRadius(e.mag, e.depth)

\* affected_radius_km of the alert message built from the re-fetched row
AlertRadius(row) == CalculateAffectedRadius(row.mag, row.depth)

\* whether the use case publishes a HighMagnitudeAlert for the entity:
\* _publish_events line 129 (ingest), CreateEarthquakeUseCase line 65
PublishesAlert(path, e) ==
    IF path = "ingest" THEN IngestAlertCondition(e) ELSE RequiresImmediateAlert(e)

\* the use case decides about the alert and publishes it
AlertDecision ==
    /\ task.pc = "alert"
    /\ IF PublishesAlert(task.path, task.eq)
       THEN task' = [task EXCEPT !.pc = "h_alert", !.nAlert = @ + 1]
       ELSE task' = [task EXCEPT !.pc = "done"]
    /\ UNCHANGED <<db, usedIds, run, nRecords, nMutations, lastHandled, regVars, engineVars>>

\* EarthquakeEventHandlers.handle_high_magnitude_alert
HandleAlert ==
    /\ task.pc = "h_alert"
    /\ \E fetch \in FetchOutcomes(task.eq.id),
          failing \in SUBSET alert_subscribers,
          later \in SUBSET alert_subscribers :
          LET event == task.eq
              does == CASE fetch = "found" /\ IsSignificant(db[event.id].mag) -> "db"
                        [] fetch = "found" -> "warn"
                        [] fetch = "none" -> WhenMissing
                        [] OTHER -> WhenRaised
              mag == IF does = "db" THEN AlertPayload(event, db[event.id]) ELSE event.mag
          IN  /\ later \cap failing = {}
              /\ does # "db" => later = {}
              /\ does = "warn" => failing = {}
              /\ lastHandled' = [type |-> "high_magnitude_alert", fetch |-> fetch,
                                 fetched |-> IF fetch = "found" THEN db[event.id].mag ELSE 0,
                                 emag |-> event.mag, bcast |-> does # "warn",
                                 mag |-> IF does = "warn" THEN 0 ELSE mag,
                                 radius |-> CASE does = "db" -> AlertRadius(db[event.id])
                                              [] does = "warn" -> 0
                                              [] OTHER -> PublishedRadius(task.path, event)]
              /\ IF does = "warn"
                 THEN /\ UNCHANGED <<regVars, engineVars>>
                      /\ task' = [task EXCEPT !.pc = "done"]
                 ELSE /\ Broadcast("alert", "high_magnitude_alert", mag, NoEarthquake,
                                   failing, later)
                      /\ task' = [task EXCEPT !.pc = "done", !.nBcast = @ + 1]
    /\ UNCHANGED <<db, usedIds, run, nRecords, nMutations>>

\* CreateEarthquakeUseCase.execute is called with a valid request
StartCreate ==
    /\ task.pc = "idle"
    /\ nRecords < MaxRecords
    /\ nRecords' = nRecords + 1
    /\ \E e \in Entities :
          /\ e.id = FreshId
          /\ task' = StartRecord("create", e)
          /\ usedIds' = usedIds \cup {e.id}
    /\ UNCHANGED <<db, run, nMutations, lastHandled, regVars, engineVars>>

\* CreateEarthquakeUseCase.execute returns the id
FinishCreate ==
    /\ task.path = "create"
    /\ task.pc = "done"
    /\ task' = IdleTask
    /\ UNCHANGED <<db, usedIds, run, nRecords, nMutations, lastHandled, regVars, engineVars>>

\* a stored row is changed by another writer
RepositoryMutate ==
    /\ nMutations < MaxMutations
    /\ \E i \in DOMAIN db, m \in PipelineMags :
          /\ m # db[i].mag
          /\ db' = [db EXCEPT ![i].mag = m]
    /\ nMutations' = nMutations + 1
    /\ UNCHANGED <<usedIds, task, run, nRecords, lastHandled, regVars, engineVars>>

\* a stored row is deleted by another writer
RepositoryDelete ==
    /\ nMutations < MaxMutations
    /\ \E i \in DOMAIN db :
          db' = [k \in (DOMAIN db) \ {i} |-> db[k]]
    /\ nMutations' = nMutations + 1
    /\ UNCHANGED <<usedIds, task, run, nRecords, lastHandled, regVars, engineVars>>

\* the broadcast in progress, marked when a connect, subscribe or disconnect
\* of the inbound path runs while one of its sends is awaited
Touched == IF bcast.pc = "sending" THEN [bcast EXCEPT !.mutated = TRUE] ELSE bcast

\* the order in which the uuids are given out
ClientOrder == <<"c1", "c2">>

Rank(c) == CHOOSE i \in 1..Len(ClientOrder) : ClientOrder[i] = c

\* websocket_endpoint: a new uuid, WebSocketManager.connect, then the
\* receive loop
Connect(S) ==
    /\ \E c \in S :
          /\ endpoint[c] = "new"
          /\ \A d \in S : endpoint[d] = "new" => Rank(c) <= Rank(d)
          /\ c \notin connections
          /\ c \notin closed
          /\ connections' = connections \cup {c}
          /\ endpoint' = [endpoint EXCEPT ![c] = "receiving"]
    /\ bcast' = Touched
    /\ UNCHANGED <<earthquake_subscribers, alert_subscribers, filter_service,
                   lastBroadcastMsg, closed, pipeVars, engineVars>>

\* WebSocketManager.subscribe_to_earthquakes, with its confirmation sent
SubscribeEarthquakes(S) ==
    /\ \E c \in S :
          /\ c \in connections
          /\ c \notin earthquake_subscribers
          /\ earthquake_subscribers' = earthquake_subscribers \cup {c}
    /\ UNCHANGED <<connections, alert_subscribers, filter_service,
                   lastBroadcastMsg, closed, bcast, endpoint, pipeVars, engineVars>>

\* WebSocketManager.subscribe_to_alerts, with its confirmation sent
SubscribeAlerts(S) ==
    /\ \E c \in S :
          /\ c \in connections
          /\ c \notin alert_subscribers
          /\ alert_subscribers' = alert_subscribers \cup {c}
    /\ UNCHANGED <<connections, earthquake_subscribers, filter_service,
                   lastBroadcastMsg, closed, bcast, endpoint, pipeVars, engineVars>>

\* websocket_endpoint: receive_text raises WebSocketDisconnect, then
\* websocket_manager.disconnect
ClientDisconnect(S) ==
    /\ \E c \in S :
          /\ endpoint[c] = "receiving"
          /\ connections' = Disconnected({c}).connections
          /\ earthquake_subscribers' = Disconnected({c}).earthquake_subscribers
          /\ alert_subscribers' = Disconnected({c}).alert_subscribers
          /\ closed' = closed \cup {c}
          /\ endpoint' = [endpoint EXCEPT ![c] = "ended"]
    /\ bcast' = Touched
    /\ UNCHANGED <<filter_service, lastBroadcastMsg, pipeVars, engineVars>>

\* ------------------------------------------------------------------------
\* The receive loop message by message: a reply is a send that is awaited
\* ------------------------------------------------------------------------
\* the sends that are awaited on the connection of client c
ReplyInFlight(c) == endpoint[c] \in {"replying", "replying_error"}

\* handle_message with a subscribe action: the client is added to the set
\* and the confirmation is handed to _send_to_client; nothing is done for a
\* client without a connection
SubscribeBegin(S) ==
    /\ \E c \in S, kind \in {"std", "alert"} :
          /\ endpoint[c] = "receiving"
          /\ c \in connections
          /\ earthquake_subscribers' = IF kind = "std" THEN earthquake_subscribers \cup {c}
                                       ELSE earthquake_subscribers
          /\ alert_subscribers' = IF kind = "alert" THEN alert_subscribers \cup {c}
                                  ELSE alert_subscribers
          /\ endpoint' = [endpoint EXCEPT ![c] = "replying"]
    /\ bcast' = Touched
    /\ UNCHANGED <<connections, filter_service, lastBroadcastMsg, closed,
                   pipeVars, engineVars>>

\* handle_message with an unknown action or invalid JSON: an error reply is
\* handed to _send_to_client
ErrorReplyBegin(S) ==
    /\ \E c \in S :
          /\ endpoint[c] = "receiving"
          /\ c \in connections
          /\ endpoint' = [endpoint EXCEPT ![c] = "replying"]
    /\ UNCHANGED <<connections, earthquake_subscribers, alert_subscribers, filter_service,
                   lastBroadcastMsg, closed, bcast, pipeVars, engineVars>>

\* the awaited reply is sent: handle_message returns to the receive loop
ReplySent(S) ==
    /\ \E c \in S :
          /\ ReplyInFlight(c)
          /\ endpoint' = [endpoint EXCEPT ![c] = "receiving"]
    /\ UNCHANGED <<connections, earthquake_subscribers, alert_subscribers, filter_service,
                   lastBroadcastMsg, closed, bcast, pipeVars, engineVars>>

\* the awaited reply raises inside handle_message's try: its
\* `except Exception` sends an "Internal server error" reply
ReplyRaised(S) ==
    /\ \E c \in S :
          /\ endpoint[c] = "replying"
          /\ endpoint' = [endpoint EXCEPT ![c] = IF c \in connections THEN "replying_error"
                                                 ELSE "receiving"]
    /\ UNCHANGED <<connections, earthquake_subscribers, alert_subscribers, filter_service,
                   lastBroadcastMsg, closed, bcast, pipeVars, engineVars>>

\* the reply sent by the except branch raises too: the exception leaves
\* handle_message and ends websocket_endpoint, which calls disconnect only
\* for a WebSocketDisconnect
ErrorReplyRaised(S) ==
    /\ \E c \in S, isWebSocketDisconnect \in BOOLEAN :
          /\ endpoint[c] = "replying_error"
          /\ endpoint' = [endpoint EXCEPT ![c] = "ended"]
          /\ IF isWebSocketDisconnect
             THEN /\ connections' = Disconnected({c}).connections
                  /\ earthquake_subscribers' = Disconnected({c}).earthquake_subscribers
                  /\ alert_subscribers' = Disconnected({c}).alert_subscribers
                  /\ closed' = closed \cup {c}
                  /\ bcast' = Touched
             ELSE UNCHANGED <<connections, earthquake_subscribers, alert_subscribers,
                              closed, bcast>>
    /\ UNCHANGED <<filter_service, lastBroadcastMsg, pipeVars, engineVars>>

\* ------------------------------------------------------------------------
\* A broadcast send by send: other coroutines run while a send is awaited
\* ------------------------------------------------------------------------
Subscribers(kind) == IF kind = "std" THEN earthquake_subscribers ELSE alert_subscribers

\* _broadcast_to_subscribers is entered with the live subscriber set (live),
\* or _broadcast_to_specific_clients with a list of some of the subscribers,
\* and runs to the await of its first send
BroadcastStart ==
    /\ bcast.pc = "idle"
    /\ bcast.n < MaxBroadcasts
    /\ \E kind \in {"std", "alert"}, live \in BOOLEAN, ids \in SUBSET RegClients :
          /\ ids \subseteq Subscribers(kind) \cap connections
          /\ live => ids = Subscribers(kind)
          /\ IF ids = {}
             THEN bcast' = [NoBroadcast EXCEPT !.pc = "returned", !.kind = kind,
                                               !.live = live, !.n = bcast.n + 1]
             ELSE \E c \in ids :
                     bcast' = [NoBroadcast EXCEPT !.pc = "sending", !.kind = kind,
                                                  !.live = live, !.targets = ids,
                                                  !.size = Cardinality(ids), !.cur = c,
                                                  !.visited = {c}, !.n = bcast.n + 1]
    /\ UNCHANGED <<connections, earthquake_subscribers, alert_subscribers, filter_service,
                   lastBroadcastMsg, closed, endpoint, pipeVars, engineVars>>

\* `for client_id in subscribers` over a set whose size changed since the
\* loop began
SetChangedSize ==
    bcast.live /\ Cardinality(Subscribers(bcast.kind)) # bcast.size

\* the clients the for loop can yield next; a listed client without a
\* connection is passed over by _send_to_client without a send
NextClients ==
    IF bcast.live THEN Subscribers(bcast.kind) \ bcast.visited
    ELSE (bcast.targets \ bcast.visited) \cap connections

\* the for loop can be exhausted: every client it began with and still
\* holds was yielded (a client added meanwhile may be skipped)
LoopExhausted ==
    IF bcast.live THEN (Subscribers(bcast.kind) \cap bcast.targets) \subseteq bcast.visited
    ELSE NextClients = {}

\* disconnected_clients after the awaited send ended, raising or not
AfterSend(raises) ==
    IF raises THEN bcast.disconnected_clients \cup {bcast.cur}
    ELSE bcast.disconnected_clients

\* the awaited send ends and the loop goes on to the send to its next client
BroadcastSend ==
    /\ bcast.pc = "sending"
    /\ ~SetChangedSize
    /\ \E c \in NextClients, raises \in BOOLEAN :
          bcast' = [bcast EXCEPT !.cur = c, !.visited = @ \cup {c},
                                 !.disconnected_clients = AfterSend(raises)]
    /\ UNCHANGED <<connections, earthquake_subscribers, alert_subscribers, filter_service,
                   lastBroadcastMsg, closed, endpoint, pipeVars, engineVars>>

\* the awaited send ends, the loop is exhausted, every client of
\* disconnected_clients is disconnected and the broadcast returns
BroadcastEnd ==
    /\ bcast.pc = "sending"
    /\ ~SetChangedSize
    /\ LoopExhausted
    /\ \E raises \in BOOLEAN :
          /\ connections' = Disconnected(AfterSend(raises)).connections
          /\ earthquake_subscribers' = Disconnected(AfterSend(raises)).earthquake_subscribers
          /\ alert_subscribers' = Disconnected(AfterSend(raises)).alert_subscribers
          /\ closed' = closed \cup AfterSend(raises)
          /\ bcast' = [bcast EXCEPT !.pc = "returned", !.cur = "none",
                                    !.disconnected_clients = AfterSend(raises)]
    /\ UNCHANGED <<filter_service, lastBroadcastMsg, endpoint, pipeVars, engineVars>>

\* the awaited send ends and the set iterator raises RuntimeError (set
\* changed size during iteration): the broadcast ends with it
BroadcastRaise ==
    /\ bcast.pc = "sending"
    /\ SetChangedSize
    /\ \E raises \in BOOLEAN :
          bcast' = [bcast EXCEPT !.pc = "raised", !.cur = "none",
                                 !.disconnected_clients = AfterSend(raises)]
    /\ UNCHANGED <<connections, earthquake_subscribers, alert_subscribers, filter_service,
                   lastBroadcastMsg, closed, endpoint, pipeVars, engineVars>>

\* the caller goes on; the next broadcast can begin
BroadcastReset ==
    /\ bcast.pc \in {"returned", "raised"}
    /\ bcast.n < MaxBroadcasts
    /\ bcast' = [NoBroadcast EXCEPT !.n = bcast.n]
    /\ UNCHANGED <<connections, earthquake_subscribers, alert_subscribers, filter_service,
                   lastBroadcastMsg, closed, endpoint, pipeVars, engineVars>>

\* ------------------------------------------------------------------------
\* WebSocketManager._send_to_client
\* ------------------------------------------------------------------------
NoSend == [client |-> "none", msg |-> [type |-> "none", size |-> 0],
           out |-> [type |-> "none", body |-> "none"]]

SizeGuardOffByOne(msg) == msg.size >= MaxMessageBytes

\* message_size > max_size, for a message whose json.dumps text has
\* msg.size bytes in UTF-8
TooLarge(msg) == msg.size > MaxMessageBytes

\* the text handed to websocket.send_text for the message
Written(msg) ==
    IF TooLarge(msg)
    THEN [type |-> "error", body |-> "error_notice"]
    ELSE [type |-> msg.type, body |-> "message_text"]

\* _send_to_client(client_id, message): nothing for a client without a
\* connection
SendToClient ==
    /\ \E c \in RegClients, type \in MessageTypes, size \in MessageSizes :
          LET msg == [type |-> type, size |-> size]
          IN  lastSend' = [client |-> c, msg |-> msg,
                           out |-> IF c \in connections THEN Written(msg)
                                   ELSE [type |-> "none", body |-> "none"]]
    /\ UNCHANGED <<engineVars, pipeVars, regVars, lastDisconnect, lastMessage, domainVars,
                   backgroundVars>>

NoDisconnect == [client |-> "none", nth |-> 0, raised |-> FALSE]

\* WebSocketManager.disconnect(client_id) called by any caller with any id,
\* connected or not, up to MaxRepeats times in a row for the same id
Disconnect ==
    /\ \E c \in RegClients :
          /\ lastDisconnect.client = c => lastDisconnect.nth < MaxRepeats
          /\ connections' = Disconnected({c}).connections
          /\ earthquake_subscribers' = Disconnected({c}).earthquake_subscribers
          /\ alert_subscribers' = Disconnected({c}).alert_subscribers
          /\ closed' = closed \cup ({c} \cap connections)
          /\ lastDisconnect' = [client |-> c,
                                nth |-> IF lastDisconnect.client = c
                                        THEN lastDisconnect.nth + 1 ELSE 1,
                                raised |-> Disconnected({c}).raised]
    /\ UNCHANGED <<filter_service, lastBroadcastMsg, bcast, endpoint, lastSend, lastMessage,
                   domainVars,
                   pipeVars, engineVars, backgroundVars>>

\* ------------------------------------------------------------------------
\* WebSocketManager.handle_message, inbound message by inbound message
\* ------------------------------------------------------------------------
\* the values of "action" in the JSON objects received; "None" is an
\* object without the key
InboundActions == {"subscribe_earthquakes", "subscribe_alerts", "subscribe_events",
                   "unsubscribe", "None"}

\* the texts received: JSON objects, a text that is not JSON, and a JSON
\* array (json.loads succeeds and data.get raises AttributeError)
InboundMessages ==
    {[kind |-> "object", action |-> a] : a \in InboundActions}
        \cup {[kind |-> "invalid_json", action |-> "None"],
              [kind |-> "array", action |-> "None"]}

NoMessage == [n |-> 0, op |-> "none", client |-> "none", kind |-> "none", action |-> "none",
              raised |-> FALSE,
              before |-> [connections |-> {}, earthquake_subscribers |-> {},
                          alert_subscribers |-> {}],
              sent |-> {}]

\* the registry as it is when an operation begins
Registry ==
    [connections |-> connections, earthquake_subscribers |-> earthquake_subscribers,
     alert_subscribers |-> alert_subscribers]

ReplyUnguarded(c, type, message) == {[to |-> c, type |-> type, message |-> message]}

\* _send_to_client(client_id, message) for a reply, which is far below the
\* size limit: the text is handed to the connection of client_id, if it has one
Reply(c, type, message) ==
    IF c \in connections THEN {[to |-> c, type |-> type, message |-> message]} ELSE {}

ConfirmToAllSubscribers(c, channel) ==
    UNION {Reply(d, "subscription_confirmed", channel) :
             d \in {c} \cup earthquake_subscribers \cup alert_subscribers}

\* the confirmation of subscribe_to_earthquakes / subscribe_to_alerts
SubscriptionConfirmed(c, channel) == Reply(c, "subscription_confirmed", channel)

DispatchEvents(action) ==
    CASE action \in {"subscribe_earthquakes", "subscribe_events"} -> "earthquakes"
      [] action = "subscribe_alerts" -> "alerts"
      [] OTHER -> "none"

\* the if/elif of handle_message: the channel an action subscribes to
Dispatch(action) ==
    CASE action = "subscribe_earthquakes" -> "earthquakes"
      [] action = "subscribe_alerts" -> "alerts"
      [] OTHER -> "none"

\* subscribe_to_earthquakes / subscribe_to_alerts: the subscriber set of the
\* channel `mine` after client c asked for `channel`
SubscribedTo(mine, channel, c, subscribers) ==
    IF channel = mine /\ c \in connections THEN subscribers \cup {c} ELSE subscribers

\* handle_message(client_id, message) to its end; `raises` is whether the
\* first send_text raises, in which case the `except Exception` of
\* handle_message sends its own error reply
HandleMessage ==
    /\ lastMessage.n < MaxMessages
    /\ \E c \in RegClients, msg \in InboundMessages, raises \in BOOLEAN :
          LET channel == IF msg.kind = "object" THEN Dispatch(msg.action) ELSE "none"
              first == CASE msg.kind = "invalid_json" ->
                                Reply(c, "error", "Invalid JSON message")
                         [] msg.kind = "array" ->
                                Reply(c, "error", "Internal server error")
                         [] channel # "none" -> SubscriptionConfirmed(c, channel)
                         [] OTHER -> Reply(c, "error", "Unknown action: " \o msg.action)
              inTry == msg.kind = "object"
              second == IF raises /\ inTry /\ first # {}
                        THEN Reply(c, "error", "Internal server error") ELSE {}
          IN  /\ earthquake_subscribers' =
                     SubscribedTo("earthquakes", channel, c, earthquake_subscribers)
              /\ alert_subscribers' = SubscribedTo("alerts", channel, c, alert_subscribers)
              /\ lastMessage' = [n |-> lastMessage.n + 1, op |-> "handle_message",
                                 client |-> c, kind |-> msg.kind, action |-> msg.action,
                                 raised |-> raises /\ first # {},
                                 before |-> Registry, sent |-> first \cup second]
    /\ UNCHANGED <<connections, filter_service, lastBroadcastMsg, closed, bcast, endpoint,
                   lastSend, lastDisconnect, domainVars, pipeVars, engineVars,
                   backgroundVars>>

\* broadcast_earthquake_update(message) / broadcast_alert(message) to its
\* end, the sends to `failing` raising
BroadcastMessage ==
    /\ lastMessage.n < MaxMessages
    /\ \E kind \in {"std", "alert"}, failing \in SUBSET RegClients :
          LET type == IF kind = "std" THEN "earthquake_detected" ELSE "high_magnitude_alert"
              earthquake == [mag |-> 45, age |-> 0, given |-> FALSE]
          IN  /\ failing \subseteq Subscribers(kind)
              /\ Broadcast(kind, type, 45, earthquake, failing, {})
              /\ lastMessage' = [n |-> lastMessage.n + 1, op |-> "broadcast",
                                 client |-> "none", kind |-> kind, action |-> "none",
                                 raised |-> FALSE, before |-> Registry,
                                 sent |-> UNION {Reply(c, type, "data") :
                                                   c \in Subscribers(kind)}]
    /\ UNCHANGED <<lastSend, lastDisconnect, domainVars, pipeVars, backgroundVars>>

\* ------------------------------------------------------------------------
\* Magnitude (values in tenths)
\* ------------------------------------------------------------------------
\* the values a Magnitude is built with: the valid ones and some outside
MagnitudeValues == (0 - 5)..125

NoMagnitude == [value |-> 0 - 1, valid |-> FALSE, level |-> "none", significant |-> FALSE]

\* __post_init__: InvalidMagnitudeError below 0 and above 12
ValidMagnitude(v) == ~(v < 0) /\ ~(v > 120)

AlertLevelBoundariesBelow(v) ==
    IF v > 70 THEN "CRITICAL"
    ELSE IF v > 55 THEN "HIGH"
    ELSE IF v > 40 THEN "MEDIUM"
    ELSE "LOW"

\* Magnitude.get_alert_level
GetAlertLevel(v) ==
    IF v >= 70 THEN "CRITICAL"
    ELSE IF v >= 55 THEN "HIGH"
    ELSE IF v >= 40 THEN "MEDIUM"
    ELSE "LOW"

\* Magnitude(value) is built and, when it is valid, asked for its alert
\* level and its significance
Classify ==
    /\ \E v \in MagnitudeValues :
          classified' = IF ValidMagnitude(v)
                        THEN [value |-> v, valid |-> TRUE, level |-> GetAlertLevel(v),
                              significant |-> IsSignificant(v)]
                        ELSE [NoMagnitude EXCEPT !.value = v]
    /\ UNCHANGED <<engineVars, pipeVars, regVars, lastSend, lastDisconnect, lastMessage,
                   handlers, lastPublish, appVars, backgroundVars>>

\* ------------------------------------------------------------------------
\* InMemoryEventPublisher
\* ------------------------------------------------------------------------
EventTypes == {"EarthquakeDetected", "HighMagnitudeAlert"}

\* the callables subscribed
Handlers == {"h1", "h2"}

NoPublish == [n |-> 0, type |-> "none", failing |-> {}, invoked |-> <<>>, raised |-> FALSE]

\* subscriptions made so far
SubscriptionCount ==
    LET RECURSIVE Sum(_)
        Sum(T) == IF T = {} THEN 0
                  ELSE LET t == CHOOSE x \in T : TRUE
                       IN  Len(handlers[t]) + Sum(T \ {t})
    IN  Sum(DOMAIN handlers)

\* subscribe(event_type, handler): the handler is appended to the list of
\* the type, which is created when missing
Subscribe ==
    /\ SubscriptionCount < MaxSubscriptions
    /\ \E t \in EventTypes, h \in Handlers :
          handlers' = DictPut(handlers, t, Append(DictGet(handlers, t, <<>>), h))
    /\ UNCHANGED <<engineVars, pipeVars, regVars, lastSend, lastDisconnect, lastMessage,
                   classified, lastPublish, appVars, backgroundVars>>

\* the first position of the list whose handler raises, or its length
LastInvoked(list, failing) ==
    IF \E i \in 1..Len(list) : list[i] \in failing
    THEN CHOOSE i \in 1..Len(list) :
            /\ list[i] \in failing
            /\ \A j \in 1..(i - 1) : list[j] \notin failing
    ELSE Len(list)

\* `for handler in self._handlers[event_type]: await handler(event)`: the
\* handlers called, up to and with the first one that raises
InvokedHandlers(list, failing) == SubSeq(list, 1, LastInvoked(list, failing))

\* publish(event) for an event of type t, the handlers of `failing` raising
Publish ==
    /\ lastPublish.n < MaxPublishes
    /\ \E t \in EventTypes, failing \in SUBSET Handlers :
          LET list == IF t \in DOMAIN handlers THEN handlers[t] ELSE <<>>
          IN  lastPublish' = [n |-> lastPublish.n + 1, type |-> t, failing |-> failing,
                              invoked |-> InvokedHandlers(list, failing),
                              raised |-> \E i \in 1..Len(list) : list[i] \in failing]
    /\ UNCHANGED <<engineVars, pipeVars, regVars, lastSend, lastDisconnect, lastMessage,
                   classified, handlers, appVars, backgroundVars>>

\* ------------------------------------------------------------------------
\* POST /scheduler/start
\* ------------------------------------------------------------------------
\* the requests made to the endpoint, in any order and overlapping
StartRequests == {"r1", "r2", "r3"}

NoRequest == [pc |-> "new", status |-> "none"]

\* `app.state.scheduler_service and ...scheduler.running`
AlreadyRunning == app_state # "none" /\ app_state \in schedulers

\* start_scheduler up to its first await: the test of app.state, then the
\* imports and the background session, which may raise into the handler's
\* `except Exception`
StartRequestCheck ==
    /\ \E r \in StartRequests, sessionRaises \in BOOLEAN :
          /\ requests[r].pc = "new"
          /\ requests' = [requests EXCEPT ![r] =
                IF AlreadyRunning THEN [pc |-> "returned", status |-> "already_running"]
                ELSE IF sessionRaises THEN [pc |-> "returned", status |-> "error"]
                ELSE [pc |-> "creating", status |-> "none"]]
    /\ UNCHANGED <<engineVars, pipeVars, regVars, lastSend, lastDisconnect, lastMessage,
                   classified, handlers, lastPublish, app_state, schedulers,
                   backgroundVars>>

\* the awaits inside the session are over: a new ScheduledJobService was
\* made, its job set up and its scheduler started; the session is left
StartRequestStart ==
    /\ \E r \in StartRequests :
          /\ requests[r].pc = "creating"
          /\ schedulers' = schedulers \cup {r}
          /\ requests' = [requests EXCEPT ![r].pc = "started"]
    /\ UNCHANGED <<engineVars, pipeVars, regVars, lastSend, lastDisconnect, lastMessage,
                   classified, handlers, lastPublish, app_state, backgroundVars>>

\* `request.app.state.scheduler_service = scheduler_service` and the answer
StartRequestStore ==
    /\ \E r \in StartRequests :
          /\ requests[r].pc = "started"
          /\ app_state' = r
          /\ requests' = [requests EXCEPT ![r] = [pc |-> "returned", status |-> "started"]]
    /\ UNCHANGED <<engineVars, pipeVars, regVars, lastSend, lastDisconnect, lastMessage,
                   classified, handlers, lastPublish, schedulers, backgroundVars>>

\* ------------------------------------------------------------------------
\* ScheduledJobService and its job scheduler
\* ------------------------------------------------------------------------
NoRun == [n |-> 0, failure |-> "none", caught |-> "none"]

NoCatchUp == [n |-> 0, due |-> 0, kept |-> 0, freshest |-> 0, blocked |-> FALSE, ran |-> {}]

SchedInit ==
    /\ jobs_added = FALSE
    /\ scheduler = [running |-> FALSE, jobs |-> 0, instances |-> 0,
                    interval |-> 0, next_run_time |-> 0]
    /\ lastRun = NoRun
    /\ calls = [setup |-> 0, fires |-> 0, skipped |-> 0, cleared |-> FALSE,
                switches |-> 0, last |-> "none", changed |-> FALSE, raised |-> FALSE,
                catchup |-> NoCatchUp]

SetupAlwaysAdds == TRUE

\* setup_earthquake_ingestion_job goes on to add_job: not after
\* `if self._jobs_added: return`
SetupAddsJob == ~jobs_added

\* setup_earthquake_ingestion_job; scheduler.jobs counts the jobs registered
\* under the id "earthquake_ingestion"
SetupEarthquakeIngestionJob ==
    /\ calls.setup < MaxSetups
    /\ calls' = [calls EXCEPT !.setup = @ + 1]
    /\ IF SetupAddsJob
       THEN /\ \E interval \in Intervals :
                  scheduler' = [scheduler EXCEPT !.jobs = @ + 1, !.interval = interval,
                                                 !.next_run_time = now + interval]
            /\ jobs_added' = TRUE
       ELSE UNCHANGED <<scheduler, jobs_added>>
    /\ UNCHANGED <<lastRun, ingest, engineVars, pipeVars, regVars, sendVars>>

StartNeverReturnsEarly == FALSE

\* `if self.scheduler.running: return` of start
StartReturnsEarly == scheduler.running

\* `if not self.scheduler.running: return` of stop
StopReturnsEarly == ~scheduler.running

\* start_scheduler, which is the scheduler's start: nothing on a running
\* scheduler; the library's own start raises SchedulerAlreadyRunningError
\* when it is reached on a running scheduler
StartScheduler ==
    /\ calls.switches < MaxSwitches
    /\ IF StartReturnsEarly
       THEN /\ scheduler' = scheduler
            /\ calls' = [calls EXCEPT !.switches = @ + 1, !.last = "start",
                                      !.changed = FALSE]
       ELSE IF scheduler.running
       THEN /\ scheduler' = scheduler
            /\ calls' = [calls EXCEPT !.switches = @ + 1, !.last = "start",
                                      !.changed = FALSE, !.raised = TRUE]
       ELSE /\ scheduler' = [scheduler EXCEPT !.running = TRUE]
            /\ calls' = [calls EXCEPT !.switches = @ + 1, !.last = "start",
                                      !.changed = TRUE]
    /\ UNCHANGED <<jobs_added, lastRun, ingest, engineVars, pipeVars, regVars, sendVars>>

\* stop_scheduler, which is the scheduler's stop: nothing on a stopped
\* scheduler; the shutdown empties the job store, and a run in progress goes
\* on to its end
StopScheduler ==
    /\ calls.switches < MaxSwitches
    /\ IF StopReturnsEarly
       THEN /\ scheduler' = scheduler
            /\ calls' = [calls EXCEPT !.switches = @ + 1, !.last = "stop",
                                      !.changed = FALSE]
       ELSE /\ scheduler' = [scheduler EXCEPT !.running = FALSE, !.jobs = 0]
            /\ calls' = [calls EXCEPT !.switches = @ + 1, !.last = "stop",
                                      !.changed = TRUE, !.cleared = TRUE]
    /\ UNCHANGED <<jobs_added, lastRun, ingest, engineVars, pipeVars, regVars, sendVars>>

\* remove_job("earthquake_ingestion"): False when there is no such job
RemoveJob ==
    /\ scheduler.jobs > 0
    /\ scheduler' = [scheduler EXCEPT !.jobs = @ - 1]
    /\ calls' = [calls EXCEPT !.cleared = TRUE]
    /\ UNCHANGED <<jobs_added, lastRun, ingest, engineVars, pipeVars, regVars, sendVars>>

\* the interval of the registered job elapses on a running scheduler: an
\* execution begins unless max_instances of them are in progress, in which
\* case the fire is skipped
JobFire ==
    /\ scheduler.running
    /\ scheduler.jobs > 0
    /\ calls.fires < MaxFires
    /\ IF scheduler.instances < max_instances
       THEN /\ scheduler' = [scheduler EXCEPT !.instances = @ + 1]
            /\ calls' = [calls EXCEPT !.fires = @ + 1]
       ELSE /\ scheduler' = scheduler
            /\ calls' = [calls EXCEPT !.fires = @ + 1, !.skipped = @ + 1]
    /\ UNCHANGED <<jobs_added, lastRun, ingest, engineVars, pipeVars, regVars, sendVars>>

\* the fire times of the job that have come due: next_run_time and every
\* interval after it up to now
RunTimes ==
    IF scheduler.next_run_time > now THEN {}
    ELSE {scheduler.next_run_time + k * scheduler.interval :
            k \in 0..((now - scheduler.next_run_time) \div scheduler.interval)}

Latest(S) == CHOOSE t \in S : \A u \in S : u <= t

\* a due fire that is not more than misfire_grace_time late
WithinGrace(t) == now - t <= misfire_grace_time

\* the fires that are run: the late ones are dropped, and with coalesce the
\* others count as one, the most recent
FiresToRun ==
    LET kept == {t \in RunTimes : WithinGrace(t)}
    IN  IF kept = {} THEN {}
        ELSE IF coalesce THEN {Latest(kept)} ELSE kept

\* the running scheduler gets to the job after one or more of its fire
\* times have passed: the fires to run are executed in one instance of the
\* job, unless max_instances of them are in progress, and the job is
\* scheduled for the interval after its most recent due fire
ProcessDueJobs ==
    /\ scheduler.running
    /\ scheduler.jobs > 0
    /\ RunTimes # {}
    /\ calls.catchup.n < MaxCatchUps
    /\ LET blocked == scheduler.instances >= max_instances
           runs == IF blocked THEN {} ELSE FiresToRun
       IN  /\ scheduler' = [scheduler EXCEPT
                               !.instances = IF runs = {} THEN @ ELSE @ + 1,
                               !.next_run_time = Latest(RunTimes) + scheduler.interval]
           /\ calls' = [calls EXCEPT !.catchup =
                          [n |-> calls.catchup.n + 1,
                           due |-> Cardinality(RunTimes),
                           kept |-> Cardinality({t \in RunTimes : WithinGrace(t)}),
                           freshest |-> now - Latest(RunTimes),
                           blocked |-> blocked,
                           ran |-> {now - t : t \in runs}]]
    /\ UNCHANGED <<jobs_added, lastRun, ingest, engineVars, pipeVars, regVars, sendVars>>

\* what can go wrong inside earthquake_ingestion_job
Failures == {"none", "fetch", "persistence", "use_case", "config"}

JobDoesNotCatch(failure) ==
    CASE failure = "none" -> "none"
      [] failure = "fetch" -> "use_case"
      [] failure = "persistence" -> "record"
      [] OTHER -> "nobody"

\* who catches it: the feed fetch is inside ScheduledIngestionUseCase's try,
\* a failing save inside the per-record try of the ingestion loop, and
\* anything else (a raising use case, a bad configuration value) inside the
\* try of the job function
CaughtBy(failure) ==
    CASE failure = "none" -> "none"
      [] failure = "fetch" -> "use_case"
      [] failure = "persistence" -> "record"
      [] OTHER -> "job"

\* an execution of earthquake_ingestion_job ends
JobEnd ==
    /\ scheduler.instances > 0
    /\ \E failure \in Failures :
          lastRun' = [n |-> lastRun.n + 1, failure |-> failure, caught |-> CaughtBy(failure)]
    /\ scheduler' = [scheduler EXCEPT !.instances = @ - 1]
    /\ UNCHANGED <<jobs_added, calls, ingest, engineVars, pipeVars, regVars, sendVars>>

\* ------------------------------------------------------------------------
\* A manual and a scheduled ingestion of the same feed record, step by step
\* ------------------------------------------------------------------------
Triggers == {"manual", "scheduled"}

\* the feed record both fetches return
SharedRecord == [ext |-> "x1", mag |-> 45]

\* the ids the two entities built from it can carry
ConcIds == 1..2

IdleIngest == [pc |-> "idle", id |-> 0, outcome |-> "none", published |-> 0]

ConcInit == ingest = [t \in Triggers |-> IdleIngest]

ConcUnchanged ==
    UNCHANGED <<usedIds, task, run, nRecords, nMutations, lastHandled,
                engineVars, regVars, sendVars, schedVars>>

\* trigger_ingestion / the scheduled job reach execute with the record
ConcBegin(t) ==
    /\ ingest[t].pc = "idle"
    /\ \E id \in ConcIds : ingest' = [ingest EXCEPT ![t].pc = "check", ![t].id = id]
    /\ db' = db
    /\ ConcUnchanged

\* execute, lines 70-82: await find_by_id(earthquake.id)
ConcCheck(t) ==
    /\ ingest[t].pc = "check"
    /\ ingest' = IF ingest[t].id \in DOMAIN db
                 THEN [ingest EXCEPT ![t].pc = "done", ![t].outcome = "updated"]
                 ELSE [ingest EXCEPT ![t].pc = "select"]
    /\ db' = db
    /\ ConcUnchanged

\* repository.save, lines 25-33: the select by external id; a row found
\* ends save with that row's id and execute goes on as for a new row
ConcSelect(t) ==
    /\ ingest[t].pc = "select"
    /\ ingest' = IF ExistingByExt(SharedRecord.ext) # {}
                 THEN [ingest EXCEPT ![t].pc = "publish", ![t].outcome = "new"]
                 ELSE [ingest EXCEPT ![t].pc = "insert"]
    /\ db' = db
    /\ ConcUnchanged

\* repository.save, lines 36-58: the insert and its commit, which raises
\* when the primary key or the unique external id is taken by now
ConcInsert(t) ==
    /\ ingest[t].pc = "insert"
    /\ IF ExistingByExt(SharedRecord.ext) # {} \/ ingest[t].id \in DOMAIN db
       THEN /\ ingest' = [ingest EXCEPT ![t].pc = "done", ![t].outcome = "error"]
            /\ db' = db
       ELSE /\ ingest' = [ingest EXCEPT ![t].pc = "publish", ![t].outcome = "new"]
            /\ db' = DictPut(db, ingest[t].id, SharedRecord)
    /\ ConcUnchanged

\* execute, line 90: _publish_events
ConcPublish(t) ==
    /\ ingest[t].pc = "publish"
    /\ ingest' = [ingest EXCEPT ![t].pc = "done", ![t].published = 1]
    /\ db' = db
    /\ ConcUnchanged

\* ------------------------------------------------------------------------
\* Specifications
\* ------------------------------------------------------------------------
Init ==
    /\ FilterInit /\ PipeInit /\ RegInit
    /\ lastSend = NoSend /\ lastDisconnect = NoDisconnect /\ lastMessage = NoMessage
    /\ classified = NoMagnitude /\ handlers = EmptyDict /\ lastPublish = NoPublish
    /\ requests = [r \in StartRequests |-> NoRequest]
    /\ app_state = "none" /\ schedulers = {}
    /\ SchedInit /\ ConcInit

\* the engine driven at 5-second and 1-second steps
FilterNext ==
    /\ \/ Tick(throttle_interval_seconds, MaxElapsed)
       \/ TickShort(1, MaxElapsed, MaxFineTicks)
       \/ OfferEarthquake(Clients)
       \/ OfferAlert(Clients, MaxAlerts)
    /\ UNCHANGED <<pipeVars, regVars, sendVars, backgroundVars>>

SpecFilter == Init /\ [][FilterNext]_vars

\* the same with an observer of one rolling 60-second window
WindowNext ==
    /\ \/ Tick(throttle_interval_seconds, MaxWindowElapsed)
       \/ OpenWindow
       \/ OfferEarthquake(OneClient)
       \/ OfferAlert(OneClient, MaxWindowAlerts)
    /\ UNCHANGED <<pipeVars, regVars, sendVars, backgroundVars>>

SpecWindow == Init /\ [][WindowNext]_vars

\* the engine over several minutes, with bursts of alerts
PruneNext ==
    /\ \/ Tick(BucketSeconds, MaxPruneElapsed)
       \/ TickShort(throttle_interval_seconds, MaxPruneElapsed, MaxShortTicks)
       \/ OfferEarthquake(OneClient)
       \/ OfferAlert(OneClient, MaxPruneAlerts)
    /\ UNCHANGED <<pipeVars, regVars, sendVars, backgroundVars>>

SpecPrune == Init /\ [][PruneNext]_vars

\* the use cases, the event handlers and the broadcaster
PipelineNext ==
    /\ \/ StartIngest \/ StartScheduledIngest
       \/ NextRecord \/ FinishIngest \/ CheckExisting \/ SaveStep
       \/ PublishDetected \/ HandleDetected \/ AlertDecision \/ HandleAlert
       \/ StartCreate \/ FinishCreate
       \/ RepositoryMutate \/ RepositoryDelete
       \/ Connect(OneClient) \/ SubscribeEarthquakes(OneClient) \/ SubscribeAlerts(OneClient)
    /\ UNCHANGED <<sendVars, backgroundVars>>

SpecPipeline == Init /\ [][PipelineNext]_vars

\* the registry under connections, subscriptions, disconnections and
\* broadcasts that interleave at their awaits
RegistryNext ==
    /\ \/ Connect(RegClients) \/ SubscribeBegin(RegClients) \/ ErrorReplyBegin(RegClients)
       \/ ReplySent(RegClients) \/ ReplyRaised(RegClients) \/ ErrorReplyRaised(RegClients)
       \/ ClientDisconnect(RegClients)
       \/ BroadcastStart \/ BroadcastSend \/ BroadcastEnd \/ BroadcastRaise
       \/ BroadcastReset
    /\ UNCHANGED <<pipeVars, engineVars, sendVars, backgroundVars>>

SpecRegistry == Init /\ [][RegistryNext]_vars

\* WebSocketManager.set_filter_service
SetFilterService ==
    /\ ~filter_service
    /\ filter_service' = TRUE
    /\ UNCHANGED <<connections, earthquake_subscribers, alert_subscribers, lastBroadcastMsg,
                   closed, bcast, endpoint, pipeVars, engineVars, sendVars, backgroundVars>>

\* WebSocketManager.broadcast_earthquake_update(message, earthquake) called
\* with or without the earthquake; the sends to `failing` raise
BroadcastEarthquakeUpdate ==
    /\ \E mag \in ManagerMags, given \in BOOLEAN, failing \in SUBSET earthquake_subscribers :
          Broadcast("std", "earthquake_detected", mag,
                    [mag |-> mag, age |-> 0, given |-> given], failing, {})
    /\ UNCHANGED <<pipeVars, sendVars, backgroundVars>>

\* the manager with a filter service, driven call by call
ManagerNext ==
    \/ /\ \/ Connect(RegClients)
          \/ SubscribeEarthquakes(RegClients)
          \/ ClientDisconnect(RegClients)
       /\ UNCHANGED <<sendVars, backgroundVars>>
    \/ SetFilterService
    \/ BroadcastEarthquakeUpdate
    \/ Tick(throttle_interval_seconds, MaxElapsed) /\ UNCHANGED <<pipeVars, regVars, sendVars, backgroundVars>>

SpecManager == Init /\ [][ManagerNext]_vars

\* direct calls on the manager: single sends of messages of every size and
\* disconnects, for connected and unconnected clients
SendNext ==
    \/ /\ \/ Connect(RegClients)
          \/ SubscribeEarthquakes(RegClients)
          \/ SubscribeAlerts(RegClients)
       /\ UNCHANGED <<sendVars, backgroundVars>>
    \/ SendToClient
    \/ Disconnect

SpecSend == Init /\ [][SendNext]_vars

\* the manager driven by whole operations: connects, inbound messages of
\* every kind for every id, broadcasts on both channels and disconnects
InboundNext ==
    \/ Connect(RegClients) /\ UNCHANGED <<sendVars, backgroundVars>>
    \/ HandleMessage
    \/ BroadcastMessage
    \/ Disconnect

SpecInbound == Init /\ [][InboundNext]_vars

\* magnitudes of every value are built and classified
MagnitudeNext == Classify

SpecMagnitude == Init /\ [][MagnitudeNext]_vars

\* one event publisher: subscriptions and publishes in any order
PublisherNext ==
    \/ Subscribe
    \/ Publish

SpecPublisher == Init /\ [][PublisherNext]_vars

\* requests to POST /scheduler/start interleaved at their awaits
StartEndpointNext ==
    \/ StartRequestCheck
    \/ StartRequestStart
    \/ StartRequestStore

SpecStartEndpoint == Init /\ [][StartEndpointNext]_vars

\* one scheduled job service: its calls, the fires of its job and their runs
SchedulerNext ==
    \/ SetupEarthquakeIngestionJob
    \/ StartScheduler
    \/ StopScheduler
    \/ RemoveJob
    \/ JobFire
    \/ JobEnd

SpecScheduler == Init /\ [][SchedulerNext]_vars

\* the scheduler on a clock: the job comes due as time passes and the
\* scheduler gets to it at once, late or very late
MisfireNext ==
    \/ SetupEarthquakeIngestionJob
    \/ StartScheduler
    \/ Tick(MisfireStep, MaxMisfireElapsed)
          /\ UNCHANGED <<pipeVars, regVars, sendVars, backgroundVars>>
    \/ ProcessDueJobs
    \/ JobEnd

SpecMisfire == Init /\ [][MisfireNext]_vars

\* the two triggers interleaved at every await
ConcurrentNext ==
    \E t \in Triggers :
        \/ ConcBegin(t)
        \/ ConcCheck(t)
        \/ ConcSelect(t)
        \/ ConcInsert(t)
        \/ ConcPublish(t)

SpecConcurrent == Init /\ [][ConcurrentNext]_vars

\* ------------------------------------------------------------------------
\* Claims about the filter
\* ------------------------------------------------------------------------

\* C1 (as stated): any two notifications admitted for a subscriber, of
\* whatever kind, are at least throttle_interval_seconds apart.
C1_AnyTwoAdmissionsSpaced ==
    \A c \in Clients :
        lastAdmit[c].gap = -1 \/ lastAdmit[c].gap >= throttle_interval_seconds

\* C1 (amended): a standard notification is admitted for a subscriber only
\* when at least throttle_interval_seconds have passed since that
\* subscriber's previous admission of any kind; alerts are exempt.
C1_StandardAdmissionsSpaced ==
    \A c \in Clients :
        lastAdmit[c].kind = "std" =>
            (lastAdmit[c].gap = -1 \/ lastAdmit[c].gap >= throttle_interval_seconds)

\* a standard notification was admitted exactly one interval after the
\* previous admission, and a later one was then rejected by the throttle
C1_Witness ==
    \E c \in Clients :
        /\ lastAdmit[c].kind = "std"
        /\ lastAdmit[c].gap = throttle_interval_seconds
        /\ lastOp.client = c /\ lastOp.kind = "std" /\ lastOp.why = "throttle"

\* C2 (as stated): no more than max_earthquakes_per_minute admissions of a
\* subscriber fall inside any rolling 60-second window.
C2_RollingWindowLimit ==
    \A c \in Clients : winCount[c] <= max_earthquakes_per_minute

\* C2 (amended): no more than max_earthquakes_per_minute standard admissions
\* of a subscriber fall inside any one clock-minute bucket (time \div 60).
C2_StandardPerBucketLimit ==
    \A c \in Clients : stdBucket[c].n <= max_earthquakes_per_minute

\* the bucket is full and a further standard notification was rate limited
C2_Witness ==
    \E c \in Clients :
        /\ stdBucket[c].n = max_earthquakes_per_minute
        /\ stdBucket[c].minute = MinuteKey(now)
        /\ lastOp.client = c /\ lastOp.kind = "std" /\ lastOp.why = "rate"

\* a step that is one decision on a standard notification
StdDecisionStep ==
    /\ now' = now
    /\ winStart' = winStart
    /\ lastOp'.kind = "std"

OthersUnchanged(c) ==
    \A x \in Clients \ {c} :
        /\ (x \in DOMAIN client_last_broadcast') = (x \in DOMAIN client_last_broadcast)
        /\ DictGet(client_last_broadcast', x, 0) = DictGet(client_last_broadcast, x, 0)
        /\ (x \in DOMAIN client_earthquake_count') = (x \in DOMAIN client_earthquake_count)
        /\ DictGet(client_earthquake_count', x, EmptyDict)
              = DictGet(client_earthquake_count, x, EmptyDict)

AdmittedCommitsOnce(c) ==
    /\ c \in DOMAIN client_last_broadcast' /\ client_last_broadcast'[c] = now
    /\ c \in DOMAIN client_earthquake_count'
    /\ MinuteKey(now) \in DOMAIN client_earthquake_count'[c]
    /\ client_earthquake_count'[c][MinuteKey(now)]
          = DictGet(DictGet(client_earthquake_count, c, EmptyDict), MinuteKey(now), 0) + 1
    /\ OthersUnchanged(c)

\* C3 (as stated): a decision on a standard notification changes the
\* engine state only when it admits (last := now, current bucket + 1); a
\* rejected decision leaves the engine state unchanged.
C3_RejectionChangesNothing ==
    [][StdDecisionStep =>
        IF lastOp'.ok
        THEN AdmittedCommitsOnce(lastOp'.client)
        ELSE /\ client_last_broadcast' = client_last_broadcast
             /\ client_earthquake_count' = client_earthquake_count]_vars

\* C3 (amended): an admitted decision sets last := now and adds one to the
\* current bucket; a rejected decision leaves the last-admitted time and
\* every counter of the current and the two preceding buckets unchanged,
\* and can only delete counters of buckets older than that.
C3_CommitOnlyOnAdmission ==
    [][StdDecisionStep =>
        LET c == lastOp'.client
            old == DictGet(client_earthquake_count, c, EmptyDict)
            new == DictGet(client_earthquake_count', c, EmptyDict)
        IN  IF lastOp'.ok
            THEN AdmittedCommitsOnce(c)
            ELSE /\ client_last_broadcast' = client_last_broadcast
                 /\ OthersUnchanged(c)
                 /\ \A k \in DOMAIN new : k \in DOMAIN old /\ new[k] = old[k]
                 /\ \A k \in DOMAIN old :
                        k >= MinuteKey(now) - PruneBuckets => k \in DOMAIN new]_vars

\* a standard notification was rejected by the rate limit and the check
\* deleted an old bucket
C3_Witness ==
    /\ lastOp.kind = "std" /\ ~lastOp.ok /\ lastOp.why = "rate" /\ lastOp.pruned

\* C22: an alert is admitted for a subscriber exactly when the magnitude
\* is at least 4.0, whatever the time since the subscriber's last admission
\* and whatever its count in the current minute (the age is not read).
C22_AlertIffMagnitude ==
    \A c \in Clients, mag \in AlertMags :
        ShouldBroadcastAlert(client_last_broadcast, client_earthquake_count,
                             c, mag, now).ok <=> (mag >= 40)

\* an alert was admitted at the very time of the previous admission and
\* into a bucket that was already full
C22_Witness ==
    /\ lastOp.kind = "alert" /\ lastOp.ok
    /\ lastAdmit[lastOp.client].gap = 0
    /\ client_earthquake_count[lastOp.client][MinuteKey(now)]
          = max_earthquakes_per_minute + 1

\* C23: a standard notification is admitted exactly when magnitude >= 2.0,
\* age <= 60 minutes, now - last admitted time >= 5 s and the count of the
\* current 60-second bucket < 10 all hold, and it is rejected by the first
\* of these checks, in this order, that fails.
C23_FourChecksInOrder ==
    \A c \in Clients, mag \in StdMags, age \in FilterAges :
        LET r == ShouldBroadcastEarthquake(client_last_broadcast, client_earthquake_count,
                                           c, mag, age, now)
            last == IF c \in DOMAIN client_last_broadcast
                    THEN client_last_broadcast[c] ELSE 0
            counts == IF c \in DOMAIN client_earthquake_count
                      THEN client_earthquake_count[c] ELSE EmptyDict
            count == IF (now \div 60) \in DOMAIN counts THEN counts[now \div 60] ELSE 0
        IN  /\ r.ok <=> (mag >= 20 /\ age <= 3600 /\ now - last >= 5 /\ count < 10)
            /\ r.why = IF mag < 20 THEN "magnitude"
                       ELSE IF age > 3600 THEN "age"
                       ELSE IF now - last < 5 THEN "throttle"
                       ELSE IF count >= 10 THEN "rate"
                       ELSE "admitted"

\* a notification was rejected for its magnitude while the bucket of its
\* subscriber was full: the first failing check decides
C23_Witness ==
    /\ lastOp.kind = "std" /\ lastOp.why = "magnitude"
    /\ stdBucket[lastOp.client].n = max_earthquakes_per_minute
    /\ stdBucket[lastOp.client].minute = MinuteKey(now)

\* C24 (as stated): a subscriber's per-minute counter map never holds a
\* bucket older than the minute of its latest admission minus 2, so never
\* more than 3 buckets, whatever mix of standard notifications and alerts
\* was processed.
C24_BoundedBuckets ==
    \A c \in DOMAIN client_earthquake_count :
        /\ Cardinality(DOMAIN client_earthquake_count[c]) <= 3
        /\ \A k \in DOMAIN client_earthquake_count[c] :
              lastAdmit[c].t >= 0 => k >= MinuteKey(lastAdmit[c].t) - 2

\* ------------------------------------------------------------------------
\* Claims about the use cases, the handlers and the broadcast
\* ------------------------------------------------------------------------

\* C4 (as stated): a broadcast of a notification evaluates the engine for
\* every subscriber of the channel and sends the message only to the
\* subscribers the engine admitted.
C4_SentOnlyToAdmitted == lastBroadcastMsg.to \subseteq lastBroadcastMsg.admitted

\* C5 (as stated): an ingested record whose external id was already
\* persisted is reported as a duplicate, inserts no row and publishes and
\* broadcasts nothing.
C5_ReingestIsDuplicate ==
    (task.path = "ingest" /\ task.pc = "done" /\ task.extKnown /\ task.outcome # "error")
        => /\ task.outcome = "updated"
           /\ ~task.inserted
           /\ task.nDetected = 0 /\ task.nAlert = 0 /\ task.nBcast = 0

C8_AlertIffSignificantAndNear ==
    (task.pc = "done" /\ task.inserted)
        => /\ task.nDetected = 1
           /\ task.nAlert = (IF RequiresImmediateAlert(task.eq) THEN 1 ELSE 0)

\* C9: an event is published or broadcast for an entity only after its save
\* returned; when the save raises nothing is published or broadcast for it.
C9_PublishOnlyAfterSave ==
    /\ task.pc \in {"pub_detected", "h_detected", "alert", "h_alert"} => task.saved = "ok"
    /\ task.nDetected + task.nAlert + task.nBcast > 0 => task.saved = "ok"
    /\ task.saved = "failed" => task.nDetected + task.nAlert + task.nBcast = 0

\* the save of an ingested entity raised while a client was subscribed, and
\* the record ended without a publication
C9_Witness ==
    /\ task.saved = "failed" /\ task.pc = "done"
    /\ earthquake_subscribers # {}
    /\ task.nDetected = 0 /\ task.nBcast = 0

\* ------------------------------------------------------------------------
\* Claims about the registry
\* ------------------------------------------------------------------------

\* C10: when a broadcast has returned, every subscriber whose send raised in
\* it is out of the connection map and of both subscription sets.
C10_FailedSendDisconnected ==
    bcast.pc = "returned" =>
        \A c \in bcast.disconnected_clients :
            /\ c \notin connections
            /\ c \notin earthquake_subscribers
            /\ c \notin alert_subscribers

\* a broadcast over several subscribers returned after the send to one of
\* them, subscribed to both channels, raised; another one is still subscribed
C10_Witness ==
    /\ bcast.pc = "returned"
    /\ bcast.disconnected_clients # {}
    /\ bcast.disconnected_clients # bcast.visited
    /\ bcast.disconnected_clients \subseteq closed
    /\ Subscribers(bcast.kind) # {}

\* C11 (as stated): a broadcast never raises to its caller, and when it
\* returns every targeted subscriber that is still subscribed was handed the
\* message, whatever sends to other subscribers raised.
C11_IsolatedAndNeverRaises ==
    /\ bcast.pc # "raised"
    /\ bcast.pc = "returned" =>
          (bcast.targets \cap Subscribers(bcast.kind)) \subseteq bcast.visited

\* C19 (as stated): connects, subscribes and disconnects that interleave
\* with a broadcast in progress never make it raise, and every subscriber
\* that stays subscribed for the whole broadcast is still handed the message.
C19_SafeUnderMutation ==
    bcast.mutated =>
        /\ bcast.pc # "raised"
        /\ bcast.pc = "returned" =>
              (bcast.targets \cap Subscribers(bcast.kind)) \subseteq bcast.visited

\* C20 (as stated): at most one send is in progress on a connection at any
\* time, whether it comes from a broadcast or from a reply of the receive
\* loop.
C20_WritesSerialized ==
    \A c \in RegClients : ~(bcast.pc = "sending" /\ bcast.cur = c /\ ReplyInFlight(c))

\* ------------------------------------------------------------------------
\* Claims about single sends
\* ------------------------------------------------------------------------

\* C12: a message whose serialized size exceeds 100 KiB (102400 bytes) is
\* replaced on the wire by a notice of type "error"; a message of at most
\* 102400 bytes is written as it is.
C12_SizeGuard ==
    lastSend.out.type # "none" =>
        IF lastSend.msg.size > 100 * 1024
        THEN lastSend.out = [type |-> "error", body |-> "error_notice"]
        ELSE lastSend.out = [type |-> lastSend.msg.type, body |-> "message_text"]

\* a message of 150 KiB was replaced by the notice
C12_Witness ==
    /\ lastSend.msg.size = 150 * 1024
    /\ lastSend.out = [type |-> "error", body |-> "error_notice"]

\* C13: disconnect removes the client from the connection map and from both
\* subscription sets and leaves every other client alone; it never raises,
\* and a call for a client without a connection (a second disconnect, or an
\* id the manager never had) changes nothing.
C13_DisconnectIdempotent ==
    [][lastDisconnect' # lastDisconnect =>
          LET c == lastDisconnect'.client
          IN  /\ ~lastDisconnect'.raised
              /\ c \notin connections'
              /\ c \notin earthquake_subscribers'
              /\ c \notin alert_subscribers'
              /\ connections' \ {c} = connections \ {c}
              /\ earthquake_subscribers' \ {c} = earthquake_subscribers \ {c}
              /\ alert_subscribers' \ {c} = alert_subscribers \ {c}
              /\ c \notin connections =>
                    UNCHANGED <<connections, earthquake_subscribers, alert_subscribers>>
      ]_vars

\* a client that was connected has been disconnected twice in a row, while
\* another client keeps its connection and subscription
C13_Witness ==
    /\ lastDisconnect.nth = 2
    /\ lastDisconnect.client \in closed
    /\ earthquake_subscribers # {}

\* disconnect was called for an id that never had a connection
C13_WitnessUnknown ==
    /\ lastDisconnect.nth = 1
    /\ endpoint[lastDisconnect.client] = "new"
    /\ connections # {}

\* ------------------------------------------------------------------------
\* Claims about the manager with its filter service
\* ------------------------------------------------------------------------

\* C14 (as stated): once a client is disconnected, by its endpoint or after
\* a failed send, the filter service holds no throttle or rate-limit state
\* for it, and the clients with throttle state are never more than the live
\* connections.
C14_NoStateAfterDisconnect ==
    /\ \A c \in closed :
          /\ c \notin DOMAIN client_last_broadcast
          /\ c \notin DOMAIN client_earthquake_count
    /\ Cardinality(DOMAIN client_last_broadcast) <= Cardinality(connections)

\* ------------------------------------------------------------------------
\* Claims about the scheduler
\* ------------------------------------------------------------------------

\* C15: however many times setup_earthquake_ingestion_job is called on one
\* service, one ingestion job is registered: the first call registers it
\* and every later call leaves the registered jobs as they are.
C15_SetupRegistersOnce ==
    /\ [](scheduler.jobs <= 1)
    /\ []((calls.setup >= 1 /\ ~calls.cleared) => scheduler.jobs = 1)
    /\ [][calls'.setup # calls.setup =>
             IF calls.setup = 0 THEN scheduler'.jobs = 1
             ELSE scheduler'.jobs = scheduler.jobs]_vars

\* setup was called three times and one job is registered
C15_Witness ==
    /\ calls.setup = 3
    /\ ~calls.cleared
    /\ scheduler.jobs = 1

C17_FailureStaysInTask ==
    /\ [](lastRun.caught # "nobody")
    /\ [][lastRun'.n # lastRun.n =>
             /\ scheduler'.running = scheduler.running
             /\ scheduler'.jobs = scheduler.jobs]_vars

\* a run whose use case raised has ended; the scheduler is running with its
\* job and later fired again
C17_Witness ==
    /\ lastRun.failure = "use_case"
    /\ lastRun.caught = "job"
    /\ scheduler.running
    /\ scheduler.jobs = 1
    /\ scheduler.instances = 1

\* ------------------------------------------------------------------------
\* Claims about concurrent ingestion triggers
\* ------------------------------------------------------------------------

\* C18 (as stated): when a manual and a scheduled ingestion process the
\* same record concurrently, in every interleaving it is persisted once and
\* its notifications are published at most once.
C18_PersistedAndPublishedOnce ==
    /\ Cardinality(ExistingByExt(SharedRecord.ext)) <= 1
    /\ ingest["manual"].published + ingest["scheduled"].published <= 1

\* ------------------------------------------------------------------------
\* Claims about the ingestion batch
\* ------------------------------------------------------------------------

\* C21: inside a batch a record whose existence check or save raises adds
\* one to the error count and the batch goes on: the loop is left only
\* between records, by returning the result.
C21_BadRecordDoesNotAbort ==
    [][/\ (task.path = "ingest" /\ run'.errors > run.errors) =>
             /\ run'.errors = run.errors + 1
             /\ task'.path = "ingest"
             /\ task'.pc = "done"
             /\ task'.outcome = "error"
       /\ (task.path = "ingest" /\ task'.path # "ingest") =>
             /\ task.pc \in {"next", "done"}
             /\ run' = [run EXCEPT !.ret = "result"]
       /\ (task.path = "ingest" /\ task.pc \in {"check", "save"} /\ task'.outcome = "error") =>
             run'.errors = run.errors + 1
      ]_vars

\* the first record of a batch failed and the second one was saved as new
C21_Witness ==
    /\ task.path = "ingest"
    /\ run.total = 2
    /\ run.errors = 1
    /\ run.new = 1
    /\ task.outcome = "new"

\* ------------------------------------------------------------------------
\* Claims about inbound messages and the life of a connection
\* ------------------------------------------------------------------------
\* the latest step was handle_message for a subscribe action of a connected
\* client that was already in the set of that channel
Resubscribed ==
    /\ lastMessage'.n = lastMessage.n + 1
    /\ lastMessage'.op = "handle_message"
    /\ lastMessage'.kind = "object"
    /\ lastMessage'.client \in connections
    /\ \/ lastMessage'.action = "subscribe_earthquakes"
             /\ lastMessage'.client \in earthquake_subscribers
       \/ lastMessage'.action = "subscribe_alerts"
             /\ lastMessage'.client \in alert_subscribers

\* C25: subscribing a connected client to a channel it is already subscribed
\* to leaves the connections and both subscription sets as they were, and
\* the subscription_confirmed message of that channel is sent on the
\* client's own connection and nothing is sent on any other.
C25_SubscribeIdempotent ==
    [][Resubscribed =>
          /\ connections' = connections
          /\ earthquake_subscribers' = earthquake_subscribers
          /\ alert_subscribers' = alert_subscribers
          /\ [to |-> lastMessage'.client, type |-> "subscription_confirmed",
              message |-> IF lastMessage'.action = "subscribe_earthquakes"
                          THEN "earthquakes" ELSE "alerts"] \in lastMessage'.sent
          /\ \A m \in lastMessage'.sent : m.to = lastMessage'.client
      ]_vars

\* a second subscribe_earthquakes of a client while another client is
\* connected and subscribed too
C25_Witness ==
    /\ lastMessage.op = "handle_message"
    /\ lastMessage.action = "subscribe_earthquakes" /\ lastMessage.kind = "object"
    /\ lastMessage.client \in lastMessage.before.earthquake_subscribers
    /\ lastMessage.client \in lastMessage.before.connections
    /\ lastMessage.before.earthquake_subscribers \cap lastMessage.before.connections
          = RegClients
    /\ lastMessage.sent # {}

\* what handle_message did for an object with the given action received from
\* a connected client: the channel subscribed to, and whether the reply is
\* the "Unknown action" error
ActionSubscribes(action, channel) ==
    (lastMessage.op = "handle_message" /\ lastMessage.kind = "object"
        /\ lastMessage.action = action
        /\ lastMessage.client \in lastMessage.before.connections) =>
       /\ earthquake_subscribers =
             lastMessage.before.earthquake_subscribers
                \cup (IF channel = "earthquakes" THEN {lastMessage.client} ELSE {})
       /\ alert_subscribers =
             lastMessage.before.alert_subscribers
                \cup (IF channel = "alerts" THEN {lastMessage.client} ELSE {})
       /\ channel = "none" =>
             [to |-> lastMessage.client, type |-> "error",
              message |-> "Unknown action: " \o action] \in lastMessage.sent

\* the registry is as handle_message left it
JustHandled ==
    /\ lastMessage.op = "handle_message"
    /\ connections = lastMessage.before.connections

\* C26 (as stated): "subscribe_events" subscribes the connection to the
\* events channel and "subscribe_alerts" to the alerts channel; any other
\* action changes no subscription and is answered with the error
\* "Unknown action: <action>".
C26_SubscribeEventsAction ==
    JustHandled =>
       /\ ActionSubscribes("subscribe_events", "earthquakes")
       /\ ActionSubscribes("subscribe_alerts", "alerts")
       /\ \A a \in InboundActions \ {"subscribe_events", "subscribe_alerts"} :
             ActionSubscribes(a, "none")

\* C26 (corrected): the action that subscribes to the events channel is
\* "subscribe_earthquakes"; "subscribe_alerts" subscribes to the alerts
\* channel; any other action, "subscribe_events" among them, changes no
\* subscription and is answered with the error "Unknown action: <action>".
C26_SubscribeEarthquakesAction ==
    JustHandled =>
       /\ ActionSubscribes("subscribe_earthquakes", "earthquakes")
       /\ ActionSubscribes("subscribe_alerts", "alerts")
       /\ \A a \in InboundActions \ {"subscribe_earthquakes", "subscribe_alerts"} :
             ActionSubscribes(a, "none")

\* "subscribe_events" from a connected client was answered with the error
C26_Witness ==
    /\ JustHandled
    /\ lastMessage.kind = "object" /\ lastMessage.action = "subscribe_events"
    /\ lastMessage.client \in connections
    /\ lastMessage.client \notin earthquake_subscribers
    /\ [to |-> lastMessage.client, type |-> "error",
        message |-> "Unknown action: subscribe_events"] \in lastMessage.sent

\* C27: once disconnect has removed a client id, no handle_message, no
\* subscribe and no broadcast puts that id into a subscription set or hands
\* a message to it.
C27_DisconnectedIsTerminal ==
    [][\A c \in closed :
          /\ c \notin connections'
          /\ c \notin earthquake_subscribers'
          /\ c \notin alert_subscribers'
          /\ lastMessage'.n # lastMessage.n =>
                \A m \in lastMessage'.sent : m.to # c
      ]_vars

\* a subscribe action handled for a client id after its disconnect, while
\* another client is connected
C27_Witness ==
    /\ lastMessage.op = "handle_message"
    /\ lastMessage.action = "subscribe_alerts" /\ lastMessage.kind = "object"
    /\ lastMessage.client \in closed
    /\ lastMessage.client \notin lastMessage.before.connections
    /\ lastMessage.sent = {}
    /\ connections # {}

C29_CoalesceAndGrace ==
    calls.catchup.n > 0 =>
       /\ Cardinality(calls.catchup.ran) <= 1
       /\ \A lateness \in calls.catchup.ran : lateness <= 300
       /\ (calls.catchup.ran # {}) <=>
             (calls.catchup.freshest <= 300 /\ ~calls.catchup.blocked)
       /\ calls.catchup.ran # {} => calls.catchup.ran = {calls.catchup.freshest}

\* ten fires were missed, four of them more than 300 s ago: one execution
C29_Witness ==
    /\ calls.catchup.due = 10
    /\ calls.catchup.kept = 6
    /\ Cardinality(calls.catchup.ran) = 1
    /\ scheduler.instances = 1

\* ------------------------------------------------------------------------
\* Claims about the end-to-end scenarios
\* ------------------------------------------------------------------------
\* the ingestion of a new record of magnitude 6.5 near a populated area has
\* run through both handlers, and no other writer touched the table
ScenarioA ==
    /\ task.path = "ingest" /\ task.pc = "done" /\ task.outcome = "new"
    /\ task.inserted
    /\ task.eq.mag = 65 /\ task.eq.near
    /\ nMutations = 0

\* C30 (as stated): ingesting one new record of magnitude 6.5 at a
\* populated-area location gives exactly one earthquake_detected broadcast
\* and exactly one high_magnitude_alert broadcast, and the affected radius
\* of the alert is 6.5 * 20 * max(0.1, 1 - depth / 100).
C30_ScenarioA ==
    ScenarioA =>
       /\ task.nDetected = 1 /\ task.nAlert = 1 /\ task.nBcast = 2
       /\ lastHandled.type = "high_magnitude_alert" /\ lastHandled.bcast
       /\ lastHandled.radius =
             IF task.eq.depth = 10 THEN 1170 ELSE 130

\* ------------------------------------------------------------------------
\* Claims about the results of an ingestion
\* ------------------------------------------------------------------------
\* C31: ScheduledIngestionUseCase.execute never raises to its caller; when
\* the feed fetch fails (or the source is not supported) it returns the
\* result 0 fetched, 0 new, 0 updated, 1 error, no ids, and the call
\* neither stores nor publishes nor broadcasts anything.
C31_TriggerNeverRaises ==
    /\ [](run.ret # "raised")
    /\ [](run.fetch \in {"failed", "unsupported"} =>
             /\ run.ret = "result"
             /\ run.total = 0 /\ run.new = 0 /\ run.updated = 0 /\ run.errors = 1
             /\ run.earthquake_ids = <<>>
             /\ task.path # "ingest")
    /\ [][(run' # run /\ run'.fetch \in {"failed", "unsupported"}) =>
             /\ db' = db
             /\ lastHandled' = lastHandled
             /\ lastBroadcastMsg' = lastBroadcastMsg
             /\ task' = IdleTask]_vars

\* a fetch failed after an earlier run had stored a row
C31_Witness ==
    /\ run.fetch = "failed"
    /\ run.ret = "result"
    /\ run.errors = 1
    /\ db # EmptyDict

\* C39: every result execute returns has total_fetched = new_earthquakes +
\* updated_earthquakes + errors and as many earthquake_ids as
\* new_earthquakes, whatever the existence checks, the saves and the
\* handlers of the published events did (run.fetch is "none" or "ok" for
\* the results of execute; the others are built by the caller's except).
C39_ResultArithmetic ==
    /\ []((run.ret = "result" /\ run.fetch \in {"none", "ok"}) =>
             /\ run.total = run.new + run.updated + run.errors
             /\ Len(run.earthquake_ids) = run.new)
    /\ [](Len(run.earthquake_ids) = run.new)

\* a returned result of a batch of two with a failed save and a stored
\* record whose re-fetch in the handler raised
C39_Witness ==
    /\ run.ret = "result"
    /\ run.total = 2 /\ run.new = 1 /\ run.errors = 1
    /\ Len(run.earthquake_ids) = 1
    /\ lastHandled.fetch = "raised"

\* ------------------------------------------------------------------------
\* Claims about the magnitude and the event publisher
\* ------------------------------------------------------------------------
\* C32: every magnitude v of [0, 12] is LOW if v < 4.0, MEDIUM if
\* 4.0 <= v < 5.5, HIGH if 5.5 <= v < 7.0 and CRITICAL if v >= 7.0, and it
\* is significant exactly when v >= 5.0.
C32_AlertLevels ==
    classified.valid =>
       /\ classified.value \in 0..120
       /\ classified.level = "LOW" <=> classified.value < 40
       /\ classified.level = "MEDIUM" <=> (40 <= classified.value /\ classified.value < 55)
       /\ classified.level = "HIGH" <=> (55 <= classified.value /\ classified.value < 70)
       /\ classified.level = "CRITICAL" <=> classified.value >= 70
       /\ classified.significant <=> classified.value >= 50

\* the boundary value 5.5 is HIGH and significant
C32_Witness ==
    /\ classified.valid
    /\ classified.value = 55
    /\ classified.level = "HIGH"
    /\ classified.significant

\* the handlers subscribed for the type of the latest publish
PublishedTo == DictGet(handlers, lastPublish'.type, <<>>)

\* C33: publish invokes every handler subscribed for the type of the event,
\* once per subscription and in subscription order, invokes no handler that
\* is subscribed for another type only, and ends without error when none
\* is subscribed.
C33_EveryHandlerOnce ==
    [][lastPublish'.n # lastPublish.n =>
          /\ lastPublish'.invoked = PublishedTo
          /\ PublishedTo = <<>> => ~lastPublish'.raised
      ]_vars

\* ------------------------------------------------------------------------
\* Claims about the registry and the endpoint
\* ------------------------------------------------------------------------
\* C34: every client id in the earthquake or the alert subscription set is
\* a key of the connection map, across connects, subscriptions, disconnects,
\* inbound messages and broadcasts whose sends fail.
C34_SubscribersConnected ==
    (earthquake_subscribers \cup alert_subscribers) \subseteq connections

\* a broadcast whose send failed has returned and disconnected a client
\* while another client is still subscribed to alerts
C34_Witness ==
    /\ bcast.pc = "returned"
    /\ bcast.disconnected_clients # {}
    /\ bcast.disconnected_clients \subseteq closed
    /\ alert_subscribers # {}
    /\ alert_subscribers \cap closed = {}

\* C36: when the receive loop of a connection has ended, for whatever
\* reason, the connection is no longer in the registry.
C36_EndedIsRemoved ==
    \A c \in RegClients : endpoint[c] = "ended" => c \notin connections

\* C35: across sequential and concurrent requests to the scheduler start
\* endpoint, at most one scheduler carrying an ingestion job is running.
C35_AtMostOneScheduler == Cardinality(schedulers) <= 1

\* ------------------------------------------------------------------------
\* Claims about the job service flag and the alert tracking
\* ------------------------------------------------------------------------
\* C37: whenever the setup flag _jobs_added of ScheduledJobService is true,
\* the job "earthquake_ingestion" is registered with the scheduler.
C37_FlagMeansRegistered == jobs_added => scheduler.jobs > 0

\* C38: an admitted alert is recorded in the per-subscriber state of the
\* standard notifications (last admitted time := now, count of the current
\* minute bucket + 1), so every standard notification offered to the
\* subscriber less than throttle_interval_seconds after an admitted alert
\* is rejected.
C38_AlertIsTracked ==
    /\ [][(lastOp'.kind = "alert" /\ lastOp'.ok /\ nAlerts' # nAlerts) =>
             LET c == lastOp'.client
                 before == DictGet(DictGet(client_earthquake_count, c, EmptyDict),
                                   MinuteKey(now), 0)
             IN  /\ c \in DOMAIN client_last_broadcast'
                 /\ client_last_broadcast'[c] = now
                 /\ c \in DOMAIN client_earthquake_count'
                 /\ MinuteKey(now) \in DOMAIN client_earthquake_count'[c]
                 /\ client_earthquake_count'[c][MinuteKey(now)] = before + 1
         ]_vars
    /\ [](\A c \in Clients :
             (lastAdmit[c].kind = "alert" /\ now - lastAdmit[c].t < throttle_interval_seconds) =>
                \A mag \in StdMags, age \in FilterAges :
                   ~ShouldBroadcastEarthquake(client_last_broadcast, client_earthquake_count,
                                              c, mag, age, now).ok)

\* a standard notification that passes the magnitude and age checks was
\* rejected by the throttle between one and four seconds after an alert
\* was admitted for the same subscriber
C38_Witness ==
    /\ lastOp.kind = "std" /\ ~lastOp.ok /\ lastOp.why = "throttle"
    /\ lastAdmit[lastOp.client].kind = "alert"
    /\ now - lastAdmit[lastOp.client].t > 0
    /\ now - lastAdmit[lastOp.client].t < throttle_interval_seconds

====
